---- MODULE Spec2Model ----
(***************************************************************************)
(* Conversation Timeline Compiler (conversation-worker.js,                 *)
(* processConversation) and Batch Orchestrator (index.js,                  *)
(* TokenOptimizer.run) of the agent trace optimizer.                       *)
(*                                                                         *)
(* Spec    : one pass of processConversation over one conversation, one    *)
(*           step per record and per tool_use block.                       *)
(* RunSpec : TokenOptimizer.run over a list of conversation files, one     *)
(*           step per parse group, worker start and event handled.         *)
(* RunLive : RunSpec with the event loop taking a step whenever one is    *)
(*           possible.                                                     *)
(* IndexSpec : the Map of tool results of one conversation, built and     *)
(*           then looked up.                                               *)
(* FnSpec  : one call of a pure function of the worker or of index.js on   *)
(*           its arguments.                                                *)
(***************************************************************************)
EXTENDS Integers, Sequences, FiniteSets, TLC

\* ------------------------------------------------------------------------
\* Bounds of the model
\* ------------------------------------------------------------------------
MaxRecords == 3
MaxTools == 2
MaxUnread == 1
MaxBlocks == 3
MaxShort == 3
MaxTail == 1
MaxSpin == 2
MaxConv == 3
MaxCmd == 4
MaxContent == 6
MaxSessions == 3

\* ------------------------------------------------------------------------
\* Values of the input records
\* ------------------------------------------------------------------------
\* A timestamp is a parseable date (milliseconds), an unparseable non-empty
\* string (Date.getTime() is NaN) or absent/empty (falsy).
Ms(n) == [v |-> "ms", ms |-> n]
NaNTime == [v |-> "NaN", ms |-> 0]
NoTime == [v |-> "undef", ms |-> 0]
Truthy(ts) == ts.v # "undef"

TimeValues == {0, 60000, 120001}
Timestamps == {Ms(n) : n \in TimeValues}

\* usage objects of assistant records; NoUsage is a record without usage
NoUsage == [present |-> FALSE, input_tokens |-> 0, output_tokens |-> 0]
Usage(i, o) == [present |-> TRUE, input_tokens |-> i, output_tokens |-> o]
Usages == {NoUsage, Usage(1000, 200)}

\* `usage && usage.input_tokens && usage.output_tokens`
HasUsage(u) == u.present /\ u.input_tokens # 0 /\ u.output_tokens # 0

\* model identifiers are strings, modelled as sequences of characters;
\* the empty sequence is a missing (or empty) identifier
OpusModel == <<"O", "p", "u", "s">>
HaikuModel == <<"h", "a", "i", "k", "u">>
NoModel == <<>>
Models == {OpusModel}

\* tool names: prefix ++ base, prefix is "mcp__" or empty
Tool(b) == [prefix |-> "", base |-> b]
Mcp(b) == [prefix |-> "mcp__", base |-> b]

\* file paths are sequences of "/"-separated segments, <<>> is a missing path

\* content of a tool result (Read) or of the tool input (Write: content,
\* Edit: new_string): its length and its number of "\n"-separated lines
Content(b, l) == [bytes |-> b, lines |-> l]
NoResult == [found |-> FALSE, content |-> Content(0, 1)]
Result(b, l) == [found |-> TRUE, content |-> Content(b, l)]

\* ------------------------------------------------------------------------
\* Pure functions of the worker
\* ------------------------------------------------------------------------
NoDuration == [k |-> "null"]

\* Math.round(x / 1000) for a non-negative integer x
RoundDiv1000(x) == (x + 500) \div 1000

\* variant: an elapsed time under one second is rendered as well
formatDurationSubSecond(start, end) ==
  IF start.v # "ms" \/ end.v # "ms" THEN [k |-> "NaNm"]
  ELSE LET diffMs == end.ms - start.ms
           minutes == diffMs \div 60000
           seconds == RoundDiv1000(diffMs % 60000)
       IN  IF diffMs < 0 \/ diffMs > 3600000 THEN NoDuration
           ELSE IF diffMs < 60000 THEN [k |-> "s", s |-> RoundDiv1000(diffMs)]
           ELSE IF seconds > 0 THEN [k |-> "ms", m |-> minutes, s |-> seconds]
           ELSE [k |-> "m", m |-> minutes]

\* formatDuration(start, end): null, "<s>s", "<m>m<s>s" or "<m>m".  With
\* an unparseable timestamp every comparison with NaN is false, the
\* function reaches the minutes branch and returns "NaNm".
formatDuration(start, end) ==
  IF start.v # "ms" \/ end.v # "ms" THEN [k |-> "NaNm"]
  ELSE LET diffMs == end.ms - start.ms
           minutes == diffMs \div 60000
           seconds == RoundDiv1000(diffMs % 60000)
       IN  IF diffMs < 0 \/ diffMs > 3600000 THEN NoDuration
           ELSE IF diffMs < 1000 THEN NoDuration
           ELSE IF diffMs < 60000 THEN [k |-> "s", s |-> RoundDiv1000(diffMs)]
           ELSE IF seconds > 0 THEN [k |-> "ms", m |-> minutes, s |-> seconds]
           ELSE [k |-> "m", m |-> minutes]

\* timeMeta / metadata prefix: "+<duration> " when both timestamps are
\* truthy and formatDuration returns a string, else empty
TimeMeta(prev, ts) ==
  IF Truthy(prev) /\ Truthy(ts) THEN formatDuration(prev, ts) ELSE NoDuration

\* String.prototype.toLowerCase, on the characters the model uses
LowerChar(c) ==
  CASE c = "O" -> "o"
    [] c = "P" -> "p"
    [] c = "U" -> "u"
    [] c = "H" -> "h"
    [] c = "S" -> "s"
    [] c = "Y" -> "y"
    [] c = "N" -> "n"
    [] OTHER -> c
\* variant: the identifier is matched as it is written
KeepCase(s) == s

toLowerCase(s) == [i \in 1..Len(s) |-> LowerChar(s[i])]

\* String.prototype.includes
includes(s, p) ==
  \E i \in 0..(Len(s) - Len(p)) : SubSeq(s, i + 1, i + Len(p)) = p

\* variant: the fallback is the premium tier
PremiumFallback == [input |-> 1500, output |-> 7500]

\* pricing tiers, in cents per million tokens
SonnetPricing == [input |-> 300, output |-> 1500]
OpusPricing == [input |-> 1500, output |-> 7500]
HaikuPricing == [input |-> 25, output |-> 125]

getModelPricing(model) ==
  LET modelLower == toLowerCase(model)
  IN  IF model = <<>> \/ model = <<"u", "n", "k", "n", "o", "w", "n">>
        THEN SonnetPricing
      ELSE IF \/ includes(modelLower, <<"s", "o", "n", "n", "e", "t", "-", "4", "-", "5">>)
              \/ includes(modelLower, <<"s", "o", "n", "n", "e", "t", "-", "4", ".", "5">>)
              \/ includes(modelLower, <<"s", "o", "n", "n", "e", "t", "-", "4">>)
        THEN SonnetPricing
      ELSE IF \/ includes(modelLower, <<"s", "o", "n", "n", "e", "t", "-", "3", "-", "5">>)
              \/ includes(modelLower, <<"s", "o", "n", "n", "e", "t", "-", "3", ".", "5">>)
              \/ includes(modelLower, <<"s", "o", "n", "n", "e", "t", "-", "3">>)
        THEN SonnetPricing
      ELSE IF includes(modelLower, <<"o", "p", "u", "s">>) THEN OpusPricing
      ELSE IF includes(modelLower, <<"h", "a", "i", "k", "u">>) THEN HaikuPricing
      ELSE SonnetPricing

\* calculateCost, in units of 10^-8 dollars (tokens x cents per million)
calculateCost(inputTokens, outputTokens, model) ==
  LET pricing == getModelPricing(model)
  IN  inputTokens * pricing.input + outputTokens * pricing.output

\* The costs are JavaScript numbers, IEEE 754 doubles. Every double of the
\* cost arithmetic is a whole multiple of 2^-90 dollars; the model writes
\* it as that multiple in base 1024, least significant digit first, <<>>
\* being 0, so that every intermediate value fits an integer of the model.
RECURSIVE Digits(_)
Digits(n) == IF n = 0 THEN <<>> ELSE <<n % 1024>> \o Digits(n \div 1024)

RECURSIVE Value(_)
Value(a) == IF a = <<>> THEN 0 ELSE Head(a) + 1024 * Value(Tail(a))

\* without the zero digits at the most significant end
RECURSIVE Normal(_)
Normal(a) ==
  IF a # <<>> /\ a[Len(a)] = 0 THEN Normal(SubSeq(a, 1, Len(a) - 1)) ELSE a

Digit(a, i) == IF i <= Len(a) THEN a[i] ELSE 0

\* a + b, exactly: the digits from the i-th on, with the carry c
RECURSIVE PlusFrom(_, _, _, _)
PlusFrom(a, b, i, c) ==
  IF i > Len(a) /\ i > Len(b) THEN Digits(c)
  ELSE LET s == Digit(a, i) + Digit(b, i) + c
       IN  <<s % 1024>> \o PlusFrom(a, b, i + 1, s \div 1024)
Plus(a, b) == PlusFrom(a, b, 1, 0)

\* a * k, exactly, for a natural number k up to 10^4
RECURSIVE TimesFrom(_, _, _, _)
TimesFrom(a, k, i, c) ==
  IF i > Len(a) THEN Digits(c)
  ELSE LET p == a[i] * k + c
       IN  <<p % 1024>> \o TimesFrom(a, k, i + 1, p \div 1024)
Times(a, k) == Normal(TimesFrom(a, k, 1, 0))

\* quotient and remainder of a by a natural number m up to 10^6: the
\* digits from the i-th down, with the remainder r of the digits above
RECURSIVE QuotientFrom(_, _, _, _)
QuotientFrom(a, m, i, r) ==
  IF i = 0 THEN [q |-> <<>>, r |-> r]
  ELSE LET t == r * 1024 + a[i]
           rest == QuotientFrom(a, m, i - 1, t % m)
       IN  [q |-> rest.q \o <<t \div m>>, r |-> rest.r]
Quotient(a, m) ==
  LET d == QuotientFrom(a, m, Len(a), 0) IN [q |-> Normal(d.q), r |-> d.r]

\* the number of significant bits
BitLength(a) ==
  IF a = <<>> THEN 0
  ELSE (Len(a) - 1) * 10
       + (CHOOSE k \in 1..10 : 2^(k - 1) <= a[Len(a)] /\ a[Len(a)] < 2^k)

\* n zero digits, for n up to 12
Zeros(n) == SubSeq(<<0, 0, 0, 0, 0, 0, 0, 0, 0, 0, 0, 0>>, 1, n)

\* the result of an arithmetic operation whose exact value is a, plus a
\* positive fraction of 2^-90 if `inexact`: the nearest double, which has 53
\* significant bits, and of two nearest ones the one with an even last bit
RoundToDouble(a, inexact) ==
  LET d == BitLength(a) - 53
  IN  IF d <= 0 THEN a
      ELSE LET t == Plus(a, Zeros((d - 1) \div 10) \o <<2^((d - 1) % 10)>>)
               w == d \div 10
               b == 2^(d % 10)
               tie == /\ \A i \in 1..w : t[i] = 0
                      /\ t[w + 1] % b = 0
                      /\ ~inexact
               q == t[w + 1] \div b
               last == IF tie /\ q % 2 = 1 THEN (q - 1) * b ELSE q * b
           IN  Zeros(w) \o <<last>> \o SubSeq(t, w + 2, Len(t))

\* `tokens / 1000000`
PerMillion(tokens) ==
  IF tokens = 0 THEN <<>>
  ELSE LET e == Quotient(Zeros(9) \o Digits(tokens), 1000000)
       IN  RoundToDouble(e.q, e.r # 0)

\* `x * pricing.input`, `x * pricing.output`: the rate, in cents, is a
\* whole number of quarter dollars, which is a double
TimesRate(x, cents) ==
  LET e == Quotient(Times(x, cents), 100)
  IN  RoundToDouble(e.q, e.r # 0)

\* A cost of the compiler is a record of `bits`, the double, and `units`,
\* the whole number of units of 10^-8 dollars nearest to it, which is the
\* exact value of the formula the double was rounded from
ZeroCost == [units |-> 0, bits |-> <<>>]

\* `x + y` of two costs
PlusCost(x, y) ==
  [units |-> x.units + y.units,
   bits |-> RoundToDouble(Plus(x.bits, y.bits), FALSE)]

\* the number that calculateCost returns:
\* (inputTokens / 1000000) * pricing.input
\*   + (outputTokens / 1000000) * pricing.output
calculateCostNumber(inputTokens, outputTokens, model) ==
  [units |-> calculateCost(inputTokens, outputTokens, model),
   bits |->
     RoundToDouble(Plus(TimesRate(PerMillion(inputTokens),
                                  getModelPricing(model).input),
                        TimesRate(PerMillion(outputTokens),
                                  getModelPricing(model).output)),
                   FALSE)]

\* the n for which n / 10^k is nearest to the double, and of two nearest
\* ones the larger, for 10^k up to 10^4
Nearest(bits, tenToK) ==
  LET t == Plus(Times(bits, tenToK), Zeros(8) \o <<512>>)
  IN  IF Len(t) <= 9 THEN 0 ELSE Value(SubSeq(t, 10, Len(t)))

\* Number.prototype.toFixed(4) of a cost: the n for which n / 10^4 is
\* nearest to the double, and of two nearest ones the larger; n is the
\* text, read in units of 10^-4 dollars. The double lies within half a
\* unit of 10^-8 dollars of `units`, so it rounds as `units` does unless
\* `units` is half way between two texts.
toFixed4(x) ==
  IF x.units % 10000 # 5000 THEN (x.units + 5000) \div 10000
  ELSE Nearest(x.bits, 10000)

\* filename: the last "/"-separated segment, 'unknown' for a missing path
Filename(path) == IF path = <<>> THEN "unknown" ELSE path[Len(path)]

\* formatReadTool: bytes of the result content, range from offset/limit
formatReadTool(tool, result) ==
  LET content == result.content
      startLine == tool.offset + 1
      endLine == IF tool.limit # 0 THEN tool.offset + tool.limit
                 ELSE tool.offset + content.lines
  IN  [filename |-> Filename(tool.path), bytes |-> content.bytes,
       lineRange |-> <<startLine, endLine>>]

\* formatWriteTool: bytes and lines of input.content
formatWriteTool(tool) ==
  [filename |-> Filename(tool.path), bytes |-> tool.content.bytes,
   lineRange |-> <<1, tool.content.lines>>]

\* formatEditTool: bytes and lines of input.new_string
formatEditTool(tool) ==
  [filename |-> Filename(tool.path), bytes |-> tool.content.bytes,
   lineRange |-> <<1, tool.content.lines>>]

\* truncateUserMessage: collapse whitespace runs, trim, cut at maxLength
IsSpace(c) == c = " " \/ c = "\n"
RECURSIVE CollapseSpaces(_)
CollapseSpaces(s) ==
  IF s = <<>> THEN <<>>
  ELSE IF IsSpace(Head(s))
    THEN IF Len(s) > 1 /\ IsSpace(s[2]) THEN CollapseSpaces(Tail(s))
         ELSE <<" ">> \o CollapseSpaces(Tail(s))
  ELSE <<Head(s)>> \o CollapseSpaces(Tail(s))
Trim(s) ==
  LET a == IF s # <<>> /\ Head(s) = " " THEN Tail(s) ELSE s
  IN  IF a # <<>> /\ a[Len(a)] = " " THEN SubSeq(a, 1, Len(a) - 1) ELSE a
UserMessageMaxLength == 100
truncateUserMessage(text) ==
  LET singleLine == Trim(CollapseSpaces(text))
  IN  IF Len(singleLine) <= UserMessageMaxLength THEN singleLine
      ELSE SubSeq(singleLine, 1, UserMessageMaxLength - 3) \o <<".", ".", ".">>

\* extractUserMessage: the first non-empty text block, truncated; null
\* (the empty sequence) when the record has none
extractUserMessage(text) ==
  IF text = <<>> THEN <<>> ELSE truncateUserMessage(text)

\* ------------------------------------------------------------------------
\* Constants of processConversation
\* ------------------------------------------------------------------------
RLE_TOOLS == {"Read", "Write", "Edit", "Think"}
BLOCKLIST_TOOLS == {"Glob", "Grep", "TodoWrite", "ExitPlanMode", "Skill",
                    "SlashCommand", "BashOutput", "KillShell", "NotebookEdit"}
READ_SIZE_THRESHOLD == 3000
THINK_IDLE_MS == 60000

\* tool.name.startsWith('mcp__')
isMcpTool(name) == name.prefix = "mcp__"
\* BLOCKLIST_TOOLS.includes(tool.name): the whole name is on the list
isBlocklisted(name) == name.prefix = "" /\ name.base \in BLOCKLIST_TOOLS
\* RLE_TOOLS.includes(tool.name)
isRleTool(name) == name.prefix = "" /\ name.base \in RLE_TOOLS
\* variant: the blocklist is matched on the name without its namespace
SkipByBaseName(name) == name.base \in BLOCKLIST_TOOLS

\* `isBlocklisted && !isMcpTool`
SkipBlocklisted(name) == isBlocklisted(name) /\ ~isMcpTool(name)
\* variant: only reads without any content are skipped
SkipEmptyRead(name, bytes) == name.base = "Read" /\ bytes = 0

\* `tool.name === 'Read' && bytes < READ_SIZE_THRESHOLD`
SkipSmallRead(name, bytes) == name.base = "Read" /\ bytes < READ_SIZE_THRESHOLD

\* ------------------------------------------------------------------------
\* The tool_use blocks and records the model feeds to the compiler
\* ------------------------------------------------------------------------
ToolUse(n, p, off, lim, c, r) ==
  [name |-> n, path |-> p, offset |-> off, limit |-> lim, content |-> c,
   result |-> r]
PlainTool(n) == ToolUse(n, <<>>, 0, 0, Content(0, 1), NoResult)

ReadBlocks ==
  {ToolUse(Tool("Read"), <<"src", "a.js">>, 0, 0, Content(0, 1), Result(3000, 80)),
   ToolUse(Tool("Read"), <<"b.js">>, 10, 5, Content(0, 1), Result(3000, 80)),
   ToolUse(Tool("Read"), <<"src", "a.js">>, 0, 0, Content(0, 1), Result(2999, 12)),
   ToolUse(Tool("Read"), <<"b.js">>, 0, 0, Content(0, 1), NoResult)}
WriteBlocks ==
  {ToolUse(Tool(k), p, 0, 0, c, NoResult) :
     k \in {"Write", "Edit"}, p \in {<<"src", "a.js">>},
     c \in {Content(40, 3)}}
OtherBlocks ==
  {PlainTool(n) : n \in {Tool("Bash"), Tool("Glob"), Mcp("Glob"),
                         Tool("Foo"), Tool("Think")}}
ToolBlocks == ReadBlocks \cup WriteBlocks \cup OtherBlocks

\* text of the first text block of a user record; <<>> when it has none
UserTexts == {<<>>, <<"h", " ", "\n", "i">>}

\* ------------------------------------------------------------------------
\* State of one pass of processConversation
\* ------------------------------------------------------------------------
VARIABLES
  actions,          \* the emitted timeline entries, in output order
  prevTimestamp,    \* end timestamp of the previously emitted entry
  lineNum,          \* next sequence number
  messageNum,       \* number of assistant records with content seen
  pendingAction,    \* the single-slot run buffer, NoPending when null
  lastUserMessage,  \* remembered user message, <<>> when null
  pc,               \* "loop", "tools" (inside a record), "done", "threw"
  entry,            \* the record of the current iteration of the main loop
  block,            \* the tool_use block of the current inner iteration
  result,           \* return value: "pending", "null", "object", "error"
  nrec,             \* records consumed so far
  nblk              \* tool_use blocks consumed so far

compilerVars == <<actions, prevTimestamp, lineNum, messageNum, pendingAction,
                  lastUserMessage, pc, entry, block, result, nrec, nblk>>

NoPending == [type |-> "null"]
NoBlock == [name |-> Tool("")]
Entry(type, ts, usage, cost, n) ==
  [type |-> type, timestamp |-> ts, usage |-> usage, entryCost |-> cost,
   nTools |-> n, left |-> n]
NoEntry == Entry("none", NoTime, NoUsage, ZeroCost, 0)

CompilerInit ==
  /\ actions = <<>>
  /\ prevTimestamp = NoTime
  /\ lineNum = 1
  /\ messageNum = 0
  /\ pendingAction = NoPending
  /\ lastUserMessage = <<>>
  /\ pc = "loop"
  /\ entry = NoEntry
  /\ block = NoBlock
  /\ result = "pending"
  /\ nrec = 0
  /\ nblk = 0

\* the part of the state flushPending reads and writes
FlushVars == [actions |-> actions, lineNum |-> lineNum,
              prevTimestamp |-> prevTimestamp, pendingAction |-> pendingAction]

\* fileEntries of a file-operation run: one file[range] item per range,
\* files in Map insertion order
RECURSIVE FileEntries(_)
FileEntries(files) ==
  IF files = <<>> THEN <<>>
  ELSE [i \in 1..Len(Head(files).ranges) |->
          [file |-> Head(files).file, range |-> Head(files).ranges[i]]]
       \o FileEntries(Tail(files))

\* the entry flushPending pushes for pending action p
FlushEntry(p, prev, ln) ==
  LET timeMeta == IF Truthy(p.startTime) /\ Truthy(prev)
                    THEN formatDuration(prev, p.startTime) ELSE NoDuration
  IN  IF p.type = "Think"
        THEN [t |-> "think", dur |-> timeMeta,
              countStr |-> IF p.count > 1 THEN <<p.count>> ELSE <<>>,
              totalIn |-> p.totalIn, totalOut |-> p.totalOut,
              cost |-> toFixed4(p.cost)]
        ELSE [t |-> "run", num |-> ln, tool |-> p.type, dur |-> timeMeta,
              bytes |-> p.totalBytes, cost |-> toFixed4(p.cost),
              items |-> FileEntries(p.files)]

\* variant: the reasoning marker consumes a sequence number as well
FlushLineNumAlways(p, ln) == ln + 1

\* lineNum after flushing pending action p
FlushLineNum(p, ln) == IF p.type = "Think" THEN ln ELSE ln + 1

\* variant: the buffer is cleared without pushing its entry
flushPendingDrop(st) ==
  IF st.pendingAction = NoPending THEN st
  ELSE [st EXCEPT !.pendingAction = NoPending]

\* flushPending()
flushPending(st) ==
  IF st.pendingAction = NoPending THEN st
  ELSE LET p == st.pendingAction
       IN  [actions |-> Append(st.actions,
                               FlushEntry(p, st.prevTimestamp, st.lineNum)),
            lineNum |-> FlushLineNum(p, st.lineNum),
            prevTimestamp |-> IF Truthy(p.endTime) THEN p.endTime
                              ELSE p.startTime,
            pendingAction |-> NoPending]

\* a user record: remember its text, emit nothing
UserRecord(text) ==
  /\ pc = "loop"
  /\ nrec < MaxRecords
  /\ nrec' = nrec + 1
  /\ entry' = Entry("user", NoTime, NoUsage, ZeroCost, 0)
  /\ block' = NoBlock
  /\ lastUserMessage' = IF extractUserMessage(text) # <<>>
                          THEN extractUserMessage(text)
                          ELSE lastUserMessage
  /\ UNCHANGED <<actions, prevTimestamp, lineNum, messageNum, pendingAction,
                 pc, result, nblk>>

\* a record that is neither a user record nor an assistant record with
\* content (summary records, assistant records without a message)
OtherRecord ==
  /\ pc = "loop"
  /\ nrec < MaxRecords
  /\ nrec' = nrec + 1
  /\ entry' = Entry("other", NoTime, NoUsage, ZeroCost, 0)
  /\ block' = NoBlock
  /\ UNCHANGED <<actions, prevTimestamp, lineNum, messageNum, pendingAction,
                 lastUserMessage, pc, result, nblk>>

\* the elapsed time the thinking branch compares with 60000 (0 when a
\* timestamp is missing; NaN, for which the comparison is false, is
\* represented by 0 as well)
ThinkGap(prev, ts) ==
  IF Truthy(prev) /\ Truthy(ts) /\ prev.v = "ms" /\ ts.v = "ms"
    THEN ts.ms - prev.ms ELSE 0
\* variant: a gap of exactly 60 seconds is dropped as well
ThinkDroppedAtLeast(prev, ts) == ThinkGap(prev, ts) >= THINK_IDLE_MS

\* `duration > 60000`
ThinkDropped(prev, ts) == ThinkGap(prev, ts) > THINK_IDLE_MS

\* pendingAction after a reasoning record was accumulated into run p
ThinkAccumulate(p, ts, usage, thinkCost) ==
  [p EXCEPT !.count = @ + 1,
            !.totalIn = @ + usage.input_tokens,
            !.totalOut = @ + usage.output_tokens,
            !.cost = PlusCost(@, thinkCost),
            !.endTime = ts]

\* a new reasoning run
ThinkStart(ts, usage, thinkCost) ==
  [type |-> "Think", count |-> 1, totalIn |-> usage.input_tokens,
   totalOut |-> usage.output_tokens, cost |-> thinkCost,
   startTime |-> ts, endTime |-> ts]

\* variant: a file operation joins any pending file-operation run
SameRunLoose(p, kind) ==
  IF kind = "Think" THEN p.type = "Think"
  ELSE p.type \in {"Read", "Write", "Edit"}

\* `pendingAction?.type === 'Think'` / `pendingAction?.type === tool.name`
SameRun(p, kind) == p.type = kind

\* `let entryCost = 0; if (usage && usage.input_tokens &&
\* usage.output_tokens) entryCost = calculateCost(...)`; the thinking
\* branch computes thinkCost under the same condition
\* the costs of the records the compiler is run on, computed once
RecordCosts ==
  {<<u, m, calculateCostNumber(u.input_tokens, u.output_tokens, m)>> :
     u \in {v \in Usages : HasUsage(v)}, m \in Models}

EntryCost(usage, model) ==
  IF ~HasUsage(usage) THEN ZeroCost
  ELSE IF \E r \in RecordCosts : r[1] = usage /\ r[2] = model
    THEN (CHOOSE r \in RecordCosts : r[1] = usage /\ r[2] = model)[3]
  ELSE calculateCostNumber(usage.input_tokens, usage.output_tokens, model)

\* an assistant record whose first content block is a thinking block; the
\* record may carry tool_use blocks after it (Bash invocations, say),
\* which the branch leaves unread: it ends with `continue`
ThinkingRecord(ts, usage, model) ==
  /\ pc = "loop"
  /\ nrec < MaxRecords
  /\ nrec' = nrec + 1
  /\ \E nTools \in 0..MaxUnread :
       entry' = Entry("thinking", ts, usage, EntryCost(usage, model), nTools)
  /\ block' = NoBlock
  /\ IF ~HasUsage(usage) \/ ThinkDropped(prevTimestamp, ts)
       THEN UNCHANGED <<actions, prevTimestamp, lineNum, pendingAction>>
       ELSE LET thinkCost == EntryCost(usage, model)
                st == flushPending(FlushVars)
            IN  IF SameRun(pendingAction, "Think")
                  THEN /\ pendingAction' =
                            ThinkAccumulate(pendingAction, ts, usage, thinkCost)
                       /\ UNCHANGED <<actions, prevTimestamp, lineNum>>
                  ELSE /\ pendingAction' = ThinkStart(ts, usage, thinkCost)
                       /\ actions' = st.actions
                       /\ lineNum' = st.lineNum
                       /\ prevTimestamp' = st.prevTimestamp
  /\ UNCHANGED <<messageNum, lastUserMessage, pc, result, nblk>>

\* start of an assistant record with content: entryCost, messageNum++,
\* insertion of the remembered user message, count of tool_use blocks
AssistantStart(ts, usage, model, nTools) ==
  /\ pc = "loop"
  /\ nrec < MaxRecords
  /\ nblk + nTools <= MaxBlocks
  /\ nrec' = nrec + 1
  /\ nblk' = nblk + nTools
  /\ messageNum' = messageNum + 1
  /\ IF lastUserMessage # <<>>
       THEN /\ actions' = Append(actions, [t |-> "user",
                                           text |-> lastUserMessage])
            /\ lastUserMessage' = <<>>
       ELSE UNCHANGED <<actions, lastUserMessage>>
  /\ entry' = Entry("assistant", ts, usage, EntryCost(usage, model), nTools)
  /\ block' = NoBlock
  /\ pc' = "tools"
  /\ UNCHANGED <<prevTimestamp, lineNum, pendingAction, result>>

\* variant: the usage is inlined whatever the number of tool_use blocks
InlineAnyTool(rec) == rec.nTools >= 1

\* `toolBlocks.length === 1`
shouldInlineTokens(rec) == rec.nTools = 1

\* the formatter chosen for an immediately rendered tool
Formatter(name) ==
  IF name.prefix = "" /\ name.base \in {"Bash", "Task", "AskUserQuestion",
                                         "WebFetch", "WebSearch"}
    THEN name.base
  ELSE IF isMcpTool(name) THEN "MCP"
  ELSE "needs formatter"

\* the metadata prefix of an action: elapsed time since the previous
\* emission and, for single-tool records with usage, the inlined usage
Metadata(prev, rec) ==
  [dur |-> TimeMeta(prev, rec.timestamp),
   inline |-> IF shouldInlineTokens(rec) /\ HasUsage(rec.usage)
                THEN <<rec.usage.input_tokens, rec.usage.output_tokens,
                       toFixed4(rec.entryCost)>>
                ELSE <<>>]

\* the { filename, bytes, lineRange } of a Read, Write or Edit block
Formatted(tool) ==
  IF tool.name.base = "Read" THEN formatReadTool(tool, tool.result)
  ELSE IF tool.name.base = "Write" THEN formatWriteTool(tool)
  ELSE formatEditTool(tool)

\* variant: a repeated filename keeps only its latest range
RECURSIVE AddRangeOverwrite(_, _, _)
AddRangeOverwrite(files, filename, lineRange) ==
  IF files = <<>> THEN <<[file |-> filename, ranges |-> <<lineRange>>]>>
  ELSE IF Head(files).file = filename
    THEN <<[Head(files) EXCEPT !.ranges = <<lineRange>>]>> \o Tail(files)
  ELSE <<Head(files)>> \o AddRangeOverwrite(Tail(files), filename, lineRange)

\* pendingAction.files after adding lineRange under filename
RECURSIVE AddRange(_, _, _)
AddRange(files, filename, lineRange) ==
  IF files = <<>> THEN <<[file |-> filename, ranges |-> <<lineRange>>]>>
  ELSE IF Head(files).file = filename
    THEN <<[Head(files) EXCEPT !.ranges = Append(@, lineRange)]>> \o Tail(files)
  ELSE <<Head(files)>> \o AddRange(Tail(files), filename, lineRange)

\* variant: the byte total is the size of the latest operation
RunAccumulateLatest(p, f, rec) ==
  [p EXCEPT !.files = AddRange(@, f.filename, f.lineRange),
            !.totalBytes = f.bytes,
            !.cost = PlusCost(@, rec.entryCost),
            !.endTime = rec.timestamp]

\* pendingAction after a file operation was merged into run p
RunAccumulate(p, f, rec) ==
  [p EXCEPT !.files = AddRange(@, f.filename, f.lineRange),
            !.totalBytes = @ + f.bytes,
            !.cost = PlusCost(@, rec.entryCost),
            !.endTime = rec.timestamp]

\* a new file-operation run
RunStart(kind, f, rec) ==
  [type |-> kind,
   files |-> <<[file |-> f.filename, ranges |-> <<f.lineRange>>]>>,
   totalBytes |-> f.bytes, cost |-> rec.entryCost,
   startTime |-> rec.timestamp, endTime |-> rec.timestamp]

\* the numbered line of an immediately rendered tool
ToolLine(tool, metadata, ln) ==
  [t |-> "tool", num |-> ln, fmt |-> Formatter(tool.name),
   name |-> tool.name, dur |-> metadata.dur, inline |-> metadata.inline]

\* one tool_use block of the current assistant record
ToolBlock(tool) ==
  /\ pc = "tools"
  /\ entry.left > 0
  /\ block' = tool
  /\ LET metadata == Metadata(prevTimestamp, entry)
         st == flushPending(FlushVars)
     IN  IF SkipBlocklisted(tool.name)
           THEN /\ entry' = [entry EXCEPT !.left = @ - 1]
                /\ UNCHANGED <<actions, prevTimestamp, lineNum,
                               pendingAction, pc, result>>
         ELSE IF isRleTool(tool.name) /\ tool.name.base = "Think"
           \* no formatter is assigned: destructuring undefined throws
           THEN /\ pc' = "threw"
                /\ result' = "error"
                /\ UNCHANGED <<actions, prevTimestamp, lineNum,
                               pendingAction, entry>>
         ELSE IF isRleTool(tool.name)
           THEN /\ entry' = [entry EXCEPT !.left = @ - 1]
                /\ UNCHANGED <<pc, result>>
                /\ IF SkipSmallRead(tool.name, Formatted(tool).bytes)
                     THEN UNCHANGED <<actions, prevTimestamp, lineNum,
                                      pendingAction>>
                   ELSE IF SameRun(pendingAction, tool.name.base)
                     THEN /\ pendingAction' =
                               RunAccumulate(pendingAction, Formatted(tool),
                                             entry)
                          /\ UNCHANGED <<actions, prevTimestamp, lineNum>>
                   ELSE /\ pendingAction' =
                             RunStart(tool.name.base, Formatted(tool), entry)
                        /\ actions' = st.actions
                        /\ lineNum' = st.lineNum
                        /\ prevTimestamp' = st.prevTimestamp
         ELSE /\ entry' = [entry EXCEPT !.left = @ - 1]
              /\ actions' = Append(st.actions,
                                   ToolLine(tool, metadata, st.lineNum))
              /\ lineNum' = st.lineNum + 1
              /\ prevTimestamp' = entry.timestamp
              /\ pendingAction' = NoPending
              /\ UNCHANGED <<pc, result>>
  /\ UNCHANGED <<messageNum, lastUserMessage, nrec, nblk>>

\* the condition of the MessageEnd marker
EmitsMessageEnd(rec) ==
  ~shouldInlineTokens(rec) /\ rec.nTools > 0 /\ HasUsage(rec.usage)

\* end of an assistant record: the MessageEnd marker of multi-tool records
AssistantEnd ==
  /\ pc = "tools"
  /\ entry.left = 0
  /\ IF EmitsMessageEnd(entry)
       THEN LET st == flushPending(FlushVars)
            IN  /\ actions' = Append(st.actions,
                     [t |-> "msgend", msg |-> messageNum,
                      dur |-> TimeMeta(st.prevTimestamp, entry.timestamp),
                      input |-> entry.usage.input_tokens,
                      output |-> entry.usage.output_tokens,
                      cost |-> toFixed4(entry.entryCost)])
                /\ lineNum' = st.lineNum
                /\ prevTimestamp' = entry.timestamp
                /\ pendingAction' = NoPending
       ELSE UNCHANGED <<actions, lineNum, prevTimestamp, pendingAction>>
  /\ pc' = "loop"
  /\ UNCHANGED <<messageNum, lastUserMessage, entry, block, result, nrec,
                 nblk>>

\* variant: a result object is returned even for an empty timeline
ReturnAlwaysObject(acts) == "object"

\* the value processConversation returns for the emitted entries
ReturnValue(acts) == IF Len(acts) > 0 THEN "object" ELSE "null"

\* end of the conversation: final flush and return
EndOfConversation ==
  /\ pc = "loop"
  /\ LET st == flushPending(FlushVars)
     IN  /\ actions' = st.actions
         /\ lineNum' = st.lineNum
         /\ prevTimestamp' = st.prevTimestamp
         /\ pendingAction' = st.pendingAction
         /\ result' = ReturnValue(st.actions)
  /\ pc' = "done"
  /\ UNCHANGED <<messageNum, lastUserMessage, entry, block, nrec, nblk>>

\* ------------------------------------------------------------------------
\* The Batch Orchestrator: TokenOptimizer.run
\* ------------------------------------------------------------------------
PARSE_BATCH == 50
ANALYZE_CAP == 16
ANALYZE_MIN == 2

\* a conversation file, by what its content makes the code do: `entries`
\* is the number of records parseJSONL returns (0 for an unreadable or
\* empty file), `outcome` what processConversation does with them
File(n, o) == [entries |-> n, outcome |-> o]
GoodFile == File(1, "object")
SilentFile == File(1, "null")
EmptyFile == File(0, "null")
ThrowingFile == File(1, "error")
FileKindsOfInput == {GoodFile, SilentFile, EmptyFile, ThrowingFile}

RECURSIVE SeqsUpTo(_, _)
SeqsUpTo(S, n) ==
  IF n = 0 THEN {<<>>}
  ELSE SeqsUpTo(S, n - 1)
       \cup {Append(q, x) : q \in {r \in SeqsUpTo(S, n - 1) : Len(r) = n - 1},
                            x \in S}
Filler(n) == [k \in 1..n |-> GoodFile]

\* the file lists of the model: every list of up to MaxShort files, and
\* the lists that reach beyond the first parse group: at most one
\* arbitrary file, PARSE_BATCH - 1 good files, up to MaxTail arbitrary files
ShortLists == SeqsUpTo(FileKindsOfInput, MaxShort)
LongLists ==
  {h \o Filler(PARSE_BATCH - 1) \o t :
     h \in SeqsUpTo(FileKindsOfInput, 1),
     t \in SeqsUpTo(FileKindsOfInput, MaxTail)}
FileLists == ShortLists \cup LongLists

\* <<options.concurrency (0 when not set), os.cpus().length, options.format>>;
\* --concurrency is read by parseInt and may be negative
PoolInputs == {<<0, 1, "cli">>, <<0, 4, "hook">>, <<1, 4, "cli">>,
               <<-1, 4, "cli">>}

\* the pools under which the lists longer than a parse group are run
LongPools == {<<0, 1, "cli">>}

\* <<options.print, options.skipClaudeAnalysis, require.main === module>>:
\* the command-line entry sets print with --print and never sets
\* skipClaudeAnalysis; a caller of the exported class sets any option
RunModes == {<<FALSE, FALSE, TRUE>>, <<TRUE, FALSE, TRUE>>,
             <<FALSE, TRUE, FALSE>>, <<FALSE, FALSE, FALSE>>}

Min(a, b) == IF a < b THEN a ELSE b
Max(a, b) == IF a > b THEN a ELSE b

\* `this.concurrency || Math.min(16, Math.max(2, cpuCount - 1))`
AnalyzeBatch(conc, cpus) ==
  IF conc # 0 THEN conc ELSE Min(ANALYZE_CAP, Max(ANALYZE_MIN, cpus - 1))

VARIABLES
  filesToProcess,     \* the conversation files, in processing order
  concurrency,        \* this.concurrency, 0 when null
  cpuCount,           \* os.cpus().length
  format,             \* this.format: "cli" or "hook"
  print,              \* this.print: --print was given
  skipClaudeAnalysis, \* this.skipClaudeAnalysis
  main,               \* require.main === module: run() is called by the
                      \* command-line entry of index.js, which ends the
                      \* process when run() settles; FALSE when a caller
                      \* of the exported class calls it
  rpc,                \* "idle", "discover", "parse", "dispatch", "await",
                      \* "finish", "question" (run() awaits the answer to
                      \* the question of analyzeWithClaude), "claude" (it
                      \* awaits the close of the claude it has spawned),
                      \* "unanswered" (the input ended without an answer:
                      \* run() stays pending), "resolved" (run() returned
                      \* normally), "rejected" (run() rethrew), "returned"
                      \* (null from the catch)
  outerI,                  \* offset of the current parse group
  innerJ,                  \* offset of the current inner group
  validConversations, \* files of the parse group that have records
  batchSequences,     \* results of the parse group collected so far
  units,              \* the worker promises of the current inner group
  settled,            \* number of promises of the group settled so far
  processedFiles,
  allConversations,
  allSequences,
  parsed,             \* files read by parseJSONL so far
  started,            \* files for which a worker has been started
  delivered           \* files whose worker promise has been resolved

\* the inputs of run(), never assigned by it
runInputs == <<filesToProcess, concurrency, cpuCount, format, print,
               skipClaudeAnalysis, main>>

runVars == <<filesToProcess, concurrency, cpuCount, format, print,
             skipClaudeAnalysis, main, rpc, outerI, innerJ,
             validConversations, batchSequences, units, settled,
             processedFiles, allConversations, allSequences, parsed, started,
             delivered>>


RunIdle ==
  /\ filesToProcess = <<>>
  /\ concurrency = 0
  /\ cpuCount = 1
  /\ format = "cli"
  /\ print = FALSE
  /\ skipClaudeAnalysis = FALSE
  /\ main = TRUE
  /\ rpc = "idle"
  /\ outerI = 0
  /\ innerJ = 0
  /\ validConversations = <<>>
  /\ batchSequences = <<>>
  /\ units = <<>>
  /\ settled = 0
  /\ processedFiles = 0
  /\ allConversations = <<>>
  /\ allSequences = <<>>
  /\ parsed = {}
  /\ started = {}
  /\ delivered = {}

RunInit ==
  /\ filesToProcess \in FileLists
  /\ \E pool \in PoolInputs :
       /\ concurrency = pool[1]
       /\ cpuCount = pool[2]
       /\ format = pool[3]
       /\ pool \notin LongPools => filesToProcess \in ShortLists
  /\ \E mode \in RunModes :
       /\ print = mode[1]
       /\ skipClaudeAnalysis = mode[2]
       /\ main = mode[3]
  /\ rpc = "discover"
  /\ outerI = 0
  /\ innerJ = 0
  /\ validConversations = <<>>
  /\ batchSequences = <<>>
  /\ units = <<>>
  /\ settled = 0
  /\ processedFiles = 0
  /\ allConversations = <<>>
  /\ allSequences = <<>>
  /\ parsed = {}
  /\ started = {}
  /\ delivered = {}

ANALYZE_BATCH == AnalyzeBatch(concurrency, cpuCount)

\* a relative index of Array.prototype.slice: a negative index counts
\* from the end, every index is clamped to 0..length
SliceIndex(x, n) == IF x < 0 THEN Max(n + x, 0) ELSE Min(x, n)

\* Array.prototype.slice(from, to) on 0-based offsets; empty when the end
\* is not after the start
Slice(q, from, to) ==
  SubSeq(q, SliceIndex(from, Len(q)) + 1, SliceIndex(to, Len(q)))

\* the indices (1-based) of the files of the parse group at offset off
ParseBatch(off) ==
  [k \in 1..(Min(off + PARSE_BATCH, Len(filesToProcess)) - off) |-> off + k]

\* variant: every file of the group is a conversation to analyse
ValidOfAll(batch) == batch

\* parsedConversations.filter(c => c !== null): the files with records
ValidOf(batch) ==
  SelectSeq(batch, LAMBDA f : filesToProcess[f].entries > 0)

\* variant: the error is rethrown whatever the format
ThrownAlways == "rejected"

\* an error thrown inside the try block of run() reaches its catch:
\* run() returns null in hook format and rethrows otherwise
Thrown == IF format = "hook" THEN "returned" ELSE "rejected"

\* before the loops: run() throws when the CLI is not found or when there
\* is no project directory, which the file system decides
Discover ==
  /\ rpc = "discover"
  /\ \E found \in BOOLEAN : rpc' = IF found THEN "parse" ELSE Thrown
  /\ UNCHANGED <<runInputs, outerI, innerJ, validConversations,
                 batchSequences, units, settled, processedFiles,
                 allConversations, allSequences, parsed, started, delivered>>

\* after the loops: the report is generated and written. With --print or
\* skipClaudeAnalysis run() returns the report; otherwise it calls
\* analyzeWithClaude, which reads instructions.md, prints the preview,
\* asks its question on the standard input and returns the promise run()
\* awaits. The directory creation, the write and the read of
\* instructions.md may throw
WriteReport ==
  /\ rpc = "finish"
  /\ \E written \in BOOLEAN :
       rpc' = IF ~written THEN Thrown
              ELSE IF print \/ skipClaudeAnalysis THEN "resolved"
              ELSE "question"
  /\ UNCHANGED <<runInputs, outerI, innerJ, validConversations,
                 batchSequences, units, settled, processedFiles,
                 allConversations, allSequences, parsed, started, delivered>>

\* the lines the standard input may answer the question with, each a
\* sequence of characters
Answers == {<<"y">>, <<"Y">>, <<"y", "e", "s">>, <<"n">>, <<"N">>, <<>>}

\* the callback of rl.question: any answer but y resolves the promise of
\* analyzeWithClaude and run() returns null; on y launchClaudeWithPrompt
\* throws when the project has no .claude directory, which rejects that
\* promise, and else spawns claude and waits for it
QuestionAnswered(answer) ==
  /\ rpc = "question"
  /\ IF toLowerCase(answer) # <<"y">> THEN rpc' = "resolved"
     ELSE \E initialized \in BOOLEAN :
            rpc' = IF initialized THEN "claude" ELSE Thrown
  /\ UNCHANGED <<runInputs, outerI, innerJ, validConversations,
                 batchSequences, units, settled, processedFiles,
                 allConversations, allSequences, parsed, started, delivered>>

\* the standard input ends before a line is read: readline closes, the
\* callback of rl.question is never called and nothing settles the
\* promise run() awaits; the process ends, with status 0, when no event
\* is left
InputEnded ==
  /\ rpc = "question"
  /\ rpc' = "unanswered"
  /\ UNCHANGED <<runInputs, outerI, innerJ, validConversations,
                 batchSequences, units, settled, processedFiles,
                 allConversations, allSequences, parsed, started, delivered>>

\* the exit codes of the spawned claude
CloseCodes == {0, 1}

\* claude.on('close'): code 0 resolves, any other code rejects
ClaudeClose(code) ==
  /\ rpc = "claude"
  /\ rpc' = IF code = 0 THEN "resolved" ELSE Thrown
  /\ UNCHANGED <<runInputs, outerI, innerJ, validConversations,
                 batchSequences, units, settled, processedFiles,
                 allConversations, allSequences, parsed, started, delivered>>

\* claude.on('error', ...): claude could not be spawned
ClaudeError ==
  /\ rpc = "claude"
  /\ rpc' = Thrown
  /\ UNCHANGED <<runInputs, outerI, innerJ, validConversations,
                 batchSequences, units, settled, processedFiles,
                 allConversations, allSequences, parsed, started, delivered>>

\* head of the outer loop: parse the next group of files, or leave the
\* loop: `throw new Error('No valid conversation data found')` or go on
\* to the report
ParseGroup ==
  /\ rpc = "parse"
  /\ IF outerI < Len(filesToProcess)
       THEN LET parseBatch == ParseBatch(outerI)
                valid == ValidOf(parseBatch)
            IN  /\ parsed' = parsed \cup {parseBatch[k] : k \in 1..Len(parseBatch)}
                /\ IF valid = <<>>
                     THEN /\ outerI' = outerI + PARSE_BATCH
                          /\ UNCHANGED <<rpc, validConversations, innerJ,
                                         batchSequences>>
                     ELSE /\ validConversations' = valid
                          /\ batchSequences' = <<>>
                          /\ innerJ' = 0
                          /\ rpc' = "dispatch"
                          /\ UNCHANGED outerI
       ELSE /\ rpc' = IF Len(allConversations) = 0 THEN Thrown ELSE "finish"
            /\ UNCHANGED <<outerI, innerJ, validConversations, batchSequences, parsed>>
  /\ UNCHANGED <<runInputs, units, settled,
                 processedFiles, allConversations, allSequences, started,
                 delivered>>

\* a worker promise: the Worker thread started on the conversation and
\* the promise wrapped around it. `thread` is "running" until the first
\* event of the worker, "terminating" once its message is handled
\* (worker.terminate()), "failed" once it has raised an error, "exited"
\* once its exit is handled, `exit` then holding the exit code. `at` is
\* the rank of the settlement in the group, `first` the first event of
\* the worker the handlers were called with
Unit(f) ==
  [file |-> f, promise |-> "pending", value |-> "none", thread |-> "running",
   at |-> 0, first |-> "none", exit |-> <<>>]

\* what the worker of unit u posts: { success: false, error } for a pass
\* that throws, else { success: true, result } with the value
\* processConversation returns, an object or null
WorkerResult(u) == filesToProcess[u.file].outcome

\* the first event of the worker of u, event when it has had none
FirstEvent(u, event) == IF u.first = "none" THEN event ELSE u.first

\* head of the inner loop: start one worker per conversation of the next
\* inner group, or finish the parse group
StartGroup ==
  /\ rpc = "dispatch"
  /\ IF innerJ < Len(validConversations)
       THEN LET analyzeBatch == Slice(validConversations, innerJ,
                                      innerJ + ANALYZE_BATCH)
            IN  /\ units' = [k \in 1..Len(analyzeBatch) |-> Unit(analyzeBatch[k])]
                /\ settled' = 0
                /\ started' = started
                     \cup {analyzeBatch[k] : k \in 1..Len(analyzeBatch)}
                /\ rpc' = "await"
                /\ UNCHANGED <<outerI, processedFiles, allConversations,
                               allSequences>>
       ELSE /\ processedFiles' = processedFiles + Len(ParseBatch(outerI))
            /\ allConversations' = allConversations \o validConversations
            /\ allSequences' = allSequences \o batchSequences
            /\ outerI' = outerI + PARSE_BATCH
            /\ rpc' = "parse"
            /\ UNCHANGED <<units, settled, started>>
  /\ UNCHANGED <<runInputs, innerJ,
                 validConversations, batchSequences, parsed, delivered>>

\* variant: the last event of a worker decides
SettleLast(u, how, v, n) == [u EXCEPT !.promise = how, !.value = v, !.at = n]

\* variant: a failure is isolated, its unit counts as completed
SettleIsolating(u, how, v, n) ==
  IF u.promise = "pending"
    THEN [u EXCEPT !.promise = "resolved", !.value = v, !.at = n]
    ELSE u

\* resolve / reject have an effect on a pending promise only
Settle(u, how, v, n) ==
  IF u.promise = "pending"
    THEN [u EXCEPT !.promise = how, !.value = v, !.at = n]
    ELSE u

\* The worker events are handled when run() has returned to the event
\* loop: while it awaits the group and, for the workers of the last group
\* whose exit is still due, while it awaits analyzeWithClaude. Between
\* the await of a group and the next only promise continuations run.
\* Once run() has settled, the command-line entry ends the process
\* (process.exit in the then and catch handlers of optimizer.run());
\* under another caller the events of the workers still go on.
\* `units` holds the promises of the current group: the exit of a worker
\* of an earlier group, whose promise is settled, changes nothing here.
EventLoop ==
  {"await", "question", "claude", "unanswered"}
    \cup (IF main THEN {} ELSE {"resolved", "rejected", "returned"})

\* worker.on('message'): the worker posts { success, result } or
\* { success: false, error }, the handler settles and terminates the worker
WorkerMessage(k) ==
  /\ rpc \in EventLoop
  /\ k \in 1..Len(units)
  /\ units[k].thread = "running"
  /\ LET posted == WorkerResult(units[k])
         u == IF posted = "error"
                THEN Settle(units[k], "rejected", "error", settled + 1)
                ELSE Settle(units[k], "resolved", posted, settled + 1)
     IN  /\ units' = [units EXCEPT ![k] =
                       [u EXCEPT !.thread = "terminating",
                                 !.first = FirstEvent(u, IF posted = "error"
                                                           THEN "failure"
                                                           ELSE "success")]]
         /\ settled' = IF u # units[k] THEN settled + 1 ELSE settled
         /\ delivered' = IF u.promise = "resolved"
                           THEN delivered \cup {units[k].file} ELSE delivered
  /\ UNCHANGED <<runInputs, rpc, outerI, innerJ,
                 validConversations, batchSequences, processedFiles,
                 allConversations, allSequences, parsed, started>>

\* worker.on('error', reject): the worker thread raised an uncaught error
WorkerError(k) ==
  /\ rpc \in EventLoop
  /\ k \in 1..Len(units)
  /\ units[k].thread = "running"
  /\ LET u == Settle(units[k], "rejected", "error", settled + 1)
     IN  /\ units' = [units EXCEPT ![k] =
                       [u EXCEPT !.thread = "failed",
                                 !.first = FirstEvent(u, "error")]]
         /\ settled' = IF u # units[k] THEN settled + 1 ELSE settled
  /\ UNCHANGED <<runInputs, rpc, outerI, innerJ,
                 validConversations, batchSequences, processedFiles,
                 allConversations, allSequences, parsed, started, delivered>>

\* the exit codes of a worker thread: 0 for a thread that ended by itself,
\* 1 for a thread that was terminated or that failed
ExitCodes == {0, 1}

\* the exit codes a thread can end with: the worker module posts a
\* message on every path of its entry point and then ends by itself, so
\* code 0 is the code of a worker whose message has been handled and
\* that ended before worker.terminate() reached it; a thread that has
\* posted nothing ends only by a failure
ExitCodesOf(thread) == IF thread = "terminating" THEN ExitCodes ELSE {1}

\* variant: the exit of a worker settles nothing
OnExitIgnored(u, code, n) == u

\* code => { if (code !== 0) reject(new Error(...)) }
OnExit(u, code, n) ==
  IF code # 0 THEN Settle(u, "rejected", "exit", n) ELSE u

\* worker.on('exit', ...): the exit of a worker after its message or its
\* error, on which reject has no effect as the promise is settled, or
\* the exit of a running worker that has posted nothing
WorkerExit(k) ==
  /\ rpc \in EventLoop
  /\ k \in 1..Len(units)
  /\ units[k].thread \in {"running", "terminating", "failed"}
  /\ \E code \in ExitCodesOf(units[k].thread) :
       LET u == OnExit(units[k], code, settled + 1)
       IN  /\ units' = [units EXCEPT ![k] =
                         [u EXCEPT !.thread = "exited", !.exit = <<code>>,
                                   !.first = FirstEvent(u, "exit")]]
           /\ settled' = IF u # units[k] THEN settled + 1 ELSE settled
  /\ UNCHANGED <<runInputs, rpc, outerI, innerJ,
                 validConversations, batchSequences, processedFiles,
                 allConversations, allSequences, parsed, started, delivered>>

\* variant: the group is left as soon as one promise is resolved
AnyResolved(us) == \E k \in 1..Len(us) : us[k].promise = "resolved"

\* Promise.all resolves when every promise of the group is resolved
AllResolved(us) == \A k \in 1..Len(us) : us[k].promise = "resolved"
\* Promise.all rejects when one promise of the group is rejected
SomeRejected(us) == \E k \in 1..Len(us) : us[k].promise = "rejected"

\* variant: the results are taken in the order of completion
RECURSIVE ResultsByCompletion(_)
ResultsByCompletion(us) ==
  IF us = <<>> THEN <<>>
  ELSE LET first == CHOOSE k \in 1..Len(us) :
                      \A l \in 1..Len(us) : us[k].at <= us[l].at
           rest == [l \in 1..(Len(us) - 1) |->
                      IF l < first THEN us[l] ELSE us[l + 1]]
       IN  <<[file |-> us[first].file, value |-> us[first].value]>>
           \o ResultsByCompletion(rest)

\* the array Promise.all resolves to: one result per promise, in the
\* order of the promises
GroupResults(us) ==
  [k \in 1..Len(us) |-> [file |-> us[k].file, value |-> us[k].value]]

\* variant: every result is collected, none included
KeepAll(results) == [k \in 1..Len(results) |-> results[k].file]

\* results.filter(r => r !== null), each result named by its file
NonNull(results) ==
  LET kept == SelectSeq(results, LAMBDA r : r.value # "null")
  IN  [k \in 1..Len(kept) |-> kept[k].file]

\* the loop index as the model keeps it: a negative index, which a
\* negative ANALYZE_BATCH moves further down for ever, is not told apart
\* below -MaxSpin, as every slice from a negative index to a smaller one
\* is empty
SpinFloor(j) == IF j < 0 - MaxSpin THEN 0 - MaxSpin ELSE j

\* `await Promise.all(workerPromises)` returns: collect the results
AwaitGroup ==
  /\ rpc = "await"
  /\ ~SomeRejected(units)
  /\ AllResolved(units)
  /\ batchSequences' = batchSequences \o NonNull(GroupResults(units))
  /\ innerJ' = SpinFloor(innerJ + ANALYZE_BATCH)
  /\ rpc' = "dispatch"
  /\ UNCHANGED <<runInputs, outerI,
                 validConversations, units, settled, processedFiles,
                 allConversations, allSequences, parsed, started, delivered>>

\* `await Promise.all(workerPromises)` throws: run() fails
AwaitRejected ==
  /\ rpc = "await"
  /\ SomeRejected(units)
  /\ rpc' = Thrown
  /\ UNCHANGED <<runInputs, outerI, innerJ,
                 validConversations, batchSequences, units, settled,
                 processedFiles, allConversations, allSequences, parsed,
                 started, delivered>>

\* ------------------------------------------------------------------------
\* The Correlation Index: toolResults of processConversation
\* ------------------------------------------------------------------------
\* content blocks and records, as the index and the lookup read them
ResultBlock(id, payload) ==
  [type |-> "tool_result", id |-> id, payload |-> payload]
UseBlock(id) == [type |-> "tool_use", id |-> id, payload |-> 0]
Record(type, blocks) == [type |-> type, content |-> blocks]

ToolIds == {"toolu_a", "toolu_b"}
\* the records of the conversations the index is built from: user records
\* with one or two tool_result blocks, assistant records with a tool_use
\* block, and a record that is not a user record but carries a tool_result
IndexRecords ==
  {Record("user", <<ResultBlock(id, n)>>) : id \in ToolIds, n \in {1, 2}}
  \cup {Record("user", <<ResultBlock("toolu_a", n), ResultBlock("toolu_a", 3 - n)>>) :
          n \in {1, 2}}
  \cup {Record("assistant", <<UseBlock(id)>>) : id \in ToolIds}
  \cup {Record("system", <<ResultBlock("toolu_a", 2)>>)}
Conversations == SeqsUpTo(IndexRecords, MaxConv)

VARIABLES
  convEntries,   \* conv.entries
  toolResults,   \* the Map from tool_use_id to tool_result block
  ipc,           \* "idle", "index" (building the Map), "loop", "done"
  scanned,       \* records consumed by the loop that builds the Map
  visited,       \* records consumed by the main loop
  lookups        \* the outcome of every toolResults.get(tool.id) so far

indexVars == <<convEntries, toolResults, ipc, scanned, visited, lookups>>

\* Map.get of an absent key is undefined
NoHit == [found |-> FALSE, payload |-> 0]
Hit(blk) == [found |-> TRUE, payload |-> blk.payload]

IndexIdle ==
  /\ convEntries = <<>>
  /\ toolResults = [id \in ToolIds |-> NoHit]
  /\ ipc = "idle"
  /\ scanned = 0
  /\ visited = 0
  /\ lookups = <<>>

IndexInit ==
  /\ convEntries \in Conversations
  /\ toolResults = [id \in ToolIds |-> NoHit]
  /\ ipc = "index"
  /\ scanned = 0
  /\ visited = 0
  /\ lookups = <<>>

\* variant: the first result of an identifier is retained
IndexSetFirst(map, blk) ==
  IF map[blk.id].found THEN map ELSE [map EXCEPT ![blk.id] = Hit(blk)]

\* toolResults.set(block.tool_use_id, block)
IndexSet(map, blk) == [map EXCEPT ![blk.id] = Hit(blk)]

\* the Map after the blocks of one record: every tool_result block of a
\* user record is set, in order
RECURSIVE IndexBlocks(_, _)
IndexBlocks(map, blocks) ==
  IF blocks = <<>> THEN map
  ELSE IndexBlocks(IF Head(blocks).type = "tool_result"
                     THEN IndexSet(map, Head(blocks)) ELSE map,
                   Tail(blocks))

\* one iteration of the loop that builds the Map
IndexRecord ==
  /\ ipc = "index"
  /\ scanned < Len(convEntries)
  /\ LET rec == convEntries[scanned + 1]
     IN  toolResults' = IF rec.type = "user"
                          THEN IndexBlocks(toolResults, rec.content)
                          ELSE toolResults
  /\ scanned' = scanned + 1
  /\ UNCHANGED <<convEntries, ipc, visited, lookups>>

\* the loop that builds the Map is left, the main loop begins
IndexBuilt ==
  /\ ipc = "index"
  /\ scanned = Len(convEntries)
  /\ ipc' = "loop"
  /\ UNCHANGED <<convEntries, toolResults, scanned, visited, lookups>>

\* the lookups of one record: `toolResults.get(tool.id)` for every
\* tool_use block of an assistant record
RECURSIVE LookupBlocks(_, _, _)
LookupBlocks(map, blocks, at) ==
  IF blocks = <<>> THEN <<>>
  ELSE (IF Head(blocks).type = "tool_use"
          THEN <<[id |-> Head(blocks).id, at |-> at,
                  result |-> map[Head(blocks).id]]>>
          ELSE <<>>)
       \o LookupBlocks(map, Tail(blocks), at)

\* one iteration of the main loop, or its end
VisitRecord ==
  /\ ipc = "loop"
  /\ IF visited < Len(convEntries)
       THEN LET rec == convEntries[visited + 1]
            IN  /\ lookups' = IF rec.type = "assistant"
                                THEN lookups \o LookupBlocks(toolResults,
                                                             rec.content,
                                                             visited + 1)
                                ELSE lookups
                /\ visited' = visited + 1
                /\ UNCHANGED ipc
       ELSE /\ ipc' = "done"
            /\ UNCHANGED <<visited, lookups>>
  /\ UNCHANGED <<convEntries, toolResults, scanned>>

\* ------------------------------------------------------------------------
\* formatBashTool and calculateCost applied to their inputs
\* ------------------------------------------------------------------------
\* \w of the heredoc pattern, on the characters the model uses
IsWordChar(c) == c \in {"E", "O", "F", "_", "1"}
IsQuote(c) == c \in {"'", "\""}

\* the index after the whitespace that starts at j
RECURSIVE SkipSpaces(_, _)
SkipSpaces(cmd, j) ==
  IF j <= Len(cmd) /\ IsSpace(cmd[j]) THEN SkipSpaces(cmd, j + 1) ELSE j

\* /<<\s*['"]?\w+['"]?/ matches at index i
PatternAt(cmd, i) ==
  /\ i + 1 <= Len(cmd)
  /\ cmd[i] = "<" /\ cmd[i + 1] = "<"
  /\ LET j == SkipSpaces(cmd, i + 2)
         k == IF j <= Len(cmd) /\ IsQuote(cmd[j]) THEN j + 1 ELSE j
     IN  k <= Len(cmd) /\ IsWordChar(cmd[k])

\* heredocPattern.test(cmd)
hasHeredoc(cmd) == \E i \in 1..Len(cmd) : PatternAt(cmd, i)

\* the result of a Bash invocation, as formatBashTool reads it
NoBashResult == [found |-> FALSE, exit_code |-> 0, bytes |-> 0]
BashResult(code, n) == [found |-> TRUE, exit_code |-> code, bytes |-> n]

\* formatBashTool(tool, result, timeMetadata): the metadata parts and the
\* body, the reference to the invocation or the command text
formatBashTool(tool, res, timeMetadata) ==
  [fmt |-> "Bash",
   dur |-> timeMetadata,
   exit |-> IF res.found /\ res.exit_code # 0 THEN <<res.exit_code>> ELSE <<>>,
   cmdBytes |-> IF tool.command # <<>> THEN <<Len(tool.command)>> ELSE <<>>,
   outBytes |-> IF res.found /\ res.bytes > 0 THEN <<res.bytes>> ELSE <<>>,
   body |-> IF hasHeredoc(tool.command)
              THEN [k |-> "heredoc", id |-> tool.id]
              ELSE [k |-> "cmd", text |-> tool.command]]

\* the commands, results, token counts and model identifiers applied
CmdChars == {"<", "-", " ", "'", "E"}
Commands == SeqsUpTo(CmdChars, MaxCmd)
BashInputs ==
  {[fn |-> "formatBashTool", tool |-> [id |-> "toolu_a", command |-> cmd],
    result |-> res] :
     cmd \in Commands, res \in {NoBashResult}}
  \cup {[fn |-> "formatBashTool",
         tool |-> [id |-> "toolu_b", command |-> <<"E", "<", "<", "E">>],
         result |-> BashResult(1, 5)]}

UnknownModel == <<"u", "n", "k", "n", "o", "w", "n">>
CostModels ==
  {NoModel, UnknownModel, OpusModel, HaikuModel,
   <<"c", "-", "o", "p", "u", "s", "-", "4">>,
   <<"O", "P", "U", "S">>,
   <<"H", "a", "i", "k", "u", "-", "3">>,
   <<"s", "o", "n", "n", "e", "t", "-", "4">>,
   <<"g", "p", "t">>,
   <<"s", "o", "n", "n", "e", "t", "-", "4", "-", "o", "p", "u", "s">>,
   <<"o", "p", "u", "s", "-", "h", "a", "i", "k", "u">>}
TokenCounts == {0, 1, 80000, 1000000}
CostInputs ==
  {[fn |-> "calculateCost", inputTokens |-> i, outputTokens |-> o,
    model |-> m] :
     i \in TokenCounts, o \in TokenCounts \ {1000000}, m \in CostModels}

\* TokenOptimizer.getModelPricing of index.js: the identifier is matched as
\* it is written, and every branch returns the same rates
TokenOptimizer_getModelPricing(model) ==
  IF model = <<>> THEN SonnetPricing
  ELSE IF \/ includes(model, <<"s", "o", "n", "n", "e", "t", "-", "4", "-", "5">>)
          \/ includes(model, <<"s", "o", "n", "n", "e", "t", "-", "4", ".", "5">>)
    THEN SonnetPricing
  ELSE IF \/ includes(model, <<"s", "o", "n", "n", "e", "t", "-", "3", "-", "5">>)
          \/ includes(model, <<"s", "o", "n", "n", "e", "t", "-", "3", ".", "5">>)
          \/ includes(model, <<"s", "o", "n", "n", "e", "t">>)
    THEN SonnetPricing
  ELSE SonnetPricing

\* TokenOptimizer.calculateCost of index.js: { total, input, output }, in
\* units of 10^-8 dollars
TokenOptimizer_calculateCost(inputTokens, outputTokens, model) ==
  LET pricing == TokenOptimizer_getModelPricing(model)
      inputCost == inputTokens * pricing.input
      outputCost == outputTokens * pricing.output
  IN  [total |-> inputCost + outputCost, input |-> inputCost,
       output |-> outputCost]

\* the token totals and the model of the report summary
ReportCostInputs ==
  {[fn |-> "TokenOptimizer.calculateCost", inputTokens |-> i,
    outputTokens |-> o, model |-> m] :
     i \in TokenCounts, o \in TokenCounts \ {1000000}, m \in CostModels}

\* the usage objects and models whose cost the compiler computes: with
\* both counts, with a count of 0, and no usage object
CostUsages == {NoUsage, Usage(1000, 200), Usage(0, 200), Usage(1000, 0)}
EntryCostInputs ==
  {[fn |-> "entryCost", usage |-> u, model |-> m] :
     u \in CostUsages, m \in {NoModel, OpusModel, HaikuModel}}

\* the content of a conversation file, as a sequence of lexical tokens:
\* line feed, whitespace, the number 1, braces and the literal null
JsonTokens == {"\n", " ", "1", "{", "}", "null"}
Contents == SeqsUpTo(JsonTokens, MaxContent)

\* content.split('\n'): the pieces between the line feeds, one more than
\* there are line feeds
RECURSIVE Split(_)
Split(content) ==
  IF \A i \in 1..Len(content) : content[i] # "\n" THEN <<content>>
  ELSE LET n == CHOOSE i \in 1..Len(content) :
                  content[i] = "\n" /\ \A j \in 1..(i - 1) : content[j] # "\n"
       IN  <<SubSeq(content, 1, n - 1)>>
           \o Split(SubSeq(content, n + 1, Len(content)))

\* `line.trim()` is truthy: the line has a character that is not whitespace
NonBlank(line) == \E i \in 1..Len(line) : line[i] # " "

\* the values of JSON.parse and the null of the catch
JsonNull == [k |-> "null"]
JsonNumber(n) == [k |-> "number", n |-> n]
JsonObject == [k |-> "object"]

SyntaxError == [k |-> "SyntaxError"]

\* the text without the whitespace at its two ends
RECURSIVE TrimSpaces(_)
TrimSpaces(text) ==
  IF text # <<>> /\ Head(text) = " " THEN TrimSpaces(Tail(text))
  ELSE IF text # <<>> /\ text[Len(text)] = " "
    THEN TrimSpaces(SubSeq(text, 1, Len(text) - 1))
  ELSE text

\* the number written as n digits 1
RECURSIVE Ones(_)
Ones(n) == IF n = 0 THEN 0 ELSE 10 * Ones(n - 1) + 1

\* JSON.parse(line): one JSON value with whitespace around it, which is a
\* number (digits that follow each other), the object { } (whitespace
\* between the braces is insignificant) or null; any other text is a
\* SyntaxError
JSON_parse(line) ==
  LET text == TrimSpaces(line)
  IN  IF text # <<>> /\ \A i \in 1..Len(text) : text[i] = "1"
        THEN JsonNumber(Ones(Len(text)))
      ELSE IF /\ Len(text) >= 2
              /\ text[1] = "{"
              /\ text[Len(text)] = "}"
              /\ \A i \in 2..(Len(text) - 1) : text[i] = " "
        THEN JsonObject
      ELSE IF text = <<"null">> THEN JsonNull
      ELSE SyntaxError

\* `try { return JSON.parse(line) } catch { return null }`
TryParse(line) ==
  IF JSON_parse(line) = SyntaxError THEN JsonNull ELSE JSON_parse(line)

\* a conversation file: readFileSync throws for an unreadable one
ReadableFile(content) == [readable |-> TRUE, content |-> content]
UnreadableFile == [readable |-> FALSE, content |-> <<>>]

\* variant: a SyntaxError reaches the outer catch
parseJSONLWhole(file) ==
  IF ~file.readable THEN <<>>
  ELSE LET lines == SelectSeq(Split(file.content), NonBlank)
       IN  IF \E i \in 1..Len(lines) : JSON_parse(lines[i]) = SyntaxError
             THEN <<>>
             ELSE SelectSeq([i \in 1..Len(lines) |-> TryParse(lines[i])],
                            LAMBDA obj : obj # JsonNull)

\* parseJSONL(filePath)
parseJSONL(file) ==
  IF ~file.readable THEN <<>>
  ELSE LET lines == SelectSeq(Split(file.content), NonBlank)
       IN  SelectSeq([i \in 1..Len(lines) |-> TryParse(lines[i])],
                     LAMBDA obj : obj # JsonNull)

ParseInputs ==
  {[fn |-> "parseJSONL", file |-> ReadableFile(c)] : c \in Contents}
  \cup {[fn |-> "parseJSONL", file |-> UnreadableFile]}

\* a compiled conversation of the report: its file and the timestamps of
\* its records, parseable or missing
Session(file, stamps) == [file |-> file, stamps |-> stamps]
SessionStamps ==
  {<<>>, <<Ms(5)>>, <<Ms(7), Ms(3)>>, <<NoTime, Ms(7)>>, <<Ms(9), NoTime, Ms(5)>>}
SessionLists ==
  {q \in SeqsUpTo({Session(f, t) : f \in {"a", "b", "c"}, t \in SessionStamps},
                  MaxSessions) :
     \A i, j \in 1..Len(q) : i # j => q[i].file # q[j].file}

\* timestamps.filter(t => t !== null) of the truthy timestamps
Millis(stamps) == {stamps[i].ms : i \in {j \in 1..Len(stamps) : Truthy(stamps[j])}}

\* variant: the latest timestamp of the conversation
StartTimeLatest(seq) ==
  IF Millis(seq.stamps) = {} THEN 0
  ELSE CHOOSE t \in Millis(seq.stamps) : \A u \in Millis(seq.stamps) : t >= u

\* `timestamps.length > 0 ? Math.min(...timestamps) : 0`
StartTime(seq) ==
  IF Millis(seq.stamps) = {} THEN 0
  ELSE CHOOSE t \in Millis(seq.stamps) : \A u \in Millis(seq.stamps) : t <= u

\* Array.prototype.sort with (a, b) => b.startTime - a.startTime: a stable
\* sort, an item goes behind the items that do not start earlier than it
RECURSIVE InsertByStart(_, _)
InsertByStart(sorted, x) ==
  IF sorted = <<>> THEN <<x>>
  ELSE IF StartTime(Head(sorted)) - StartTime(x) < 0
    THEN <<x>> \o sorted
  ELSE <<Head(sorted)>> \o InsertByStart(Tail(sorted), x)
RECURSIVE SortByStart(_)
SortByStart(items) ==
  IF items = <<>> THEN <<>>
  ELSE InsertByStart(SortByStart(SubSeq(items, 1, Len(items) - 1)),
                     items[Len(items)])

\* the files of the Sessions section of the report, in its order
ReportSessions(sequences) ==
  [i \in 1..Len(sequences) |-> SortByStart(sequences)[i].file]

ReportInputs ==
  {[fn |-> "generateAnalysisReport", sequences |-> q] : q \in SessionLists}

\* the pairs of timestamps the duration metadata is computed from
DurationStamps ==
  {NoTime, NaNTime}
  \cup {Ms(n) : n \in {0, 999, 1000, 59600, 61000, 119700, 3600000, 3600001}}
DurationInputs ==
  {[fn |-> "timeMeta", prev |-> a, timestamp |-> b] :
     a \in DurationStamps, b \in DurationStamps}

VARIABLES
  fnIn,    \* the arguments of the call
  fnOut    \* the value returned, [k |-> "none"] before the call

fnVars == <<fnIn, fnOut>>

NotCalled == [k |-> "none"]
FnIdle == fnIn = [fn |-> "none"] /\ fnOut = NotCalled
FnInit ==
  /\ fnIn \in BashInputs \cup CostInputs \cup DurationInputs \cup ParseInputs
             \cup ReportInputs \cup ReportCostInputs \cup EntryCostInputs
  /\ fnOut = NotCalled

ApplyFormatBash ==
  /\ fnIn.fn = "formatBashTool"
  /\ fnOut = NotCalled
  /\ fnOut' = [k |-> "line",
               v |-> formatBashTool(fnIn.tool, fnIn.result, NoDuration)]
  /\ UNCHANGED fnIn

ApplyCalculateCost ==
  /\ fnIn.fn = "calculateCost"
  /\ fnOut = NotCalled
  /\ fnOut' = [k |-> "cost",
               v |-> calculateCost(fnIn.inputTokens, fnIn.outputTokens,
                                   fnIn.model)]
  /\ UNCHANGED fnIn

ApplyEntryCost ==
  /\ fnIn.fn = "entryCost"
  /\ fnOut = NotCalled
  /\ fnOut' = [k |-> "entryCost", v |-> EntryCost(fnIn.usage, fnIn.model)]
  /\ UNCHANGED fnIn

\* `const costData = this.calculateCost(totalInputTokens,
\* totalOutputTokens, modelName)` of generateAnalysisReport
ApplyReportCost ==
  /\ fnIn.fn = "TokenOptimizer.calculateCost"
  /\ fnOut = NotCalled
  /\ fnOut' = [k |-> "costData",
               v |-> TokenOptimizer_calculateCost(fnIn.inputTokens,
                                                  fnIn.outputTokens,
                                                  fnIn.model)]
  /\ UNCHANGED fnIn

\* `if (prevTimestamp && entry.timestamp) { duration = formatDuration(...);
\* if (duration) metadata += ... }`
ApplyTimeMeta ==
  /\ fnIn.fn = "timeMeta"
  /\ fnOut = NotCalled
  /\ fnOut' = [k |-> "meta", v |-> TimeMeta(fnIn.prev, fnIn.timestamp)]
  /\ UNCHANGED fnIn

ApplyParseJSONL ==
  /\ fnIn.fn = "parseJSONL"
  /\ fnOut = NotCalled
  /\ fnOut' = [k |-> "entries", v |-> parseJSONL(fnIn.file)]
  /\ UNCHANGED fnIn

ApplyReport ==
  /\ fnIn.fn = "generateAnalysisReport"
  /\ fnOut = NotCalled
  /\ fnOut' = [k |-> "sessions", v |-> ReportSessions(fnIn.sequences)]
  /\ UNCHANGED fnIn

\* ------------------------------------------------------------------------
\* Specifications
\* ------------------------------------------------------------------------
vars == <<compilerVars, runVars, indexVars, fnVars>>

\* what the steps of each specification leave alone
notCompiler == <<runVars, indexVars, fnVars>>
notRun == <<compilerVars, indexVars, fnVars>>
notIndex == <<compilerVars, runVars, fnVars>>
notFn == <<compilerVars, runVars, indexVars>>

\* one pass of processConversation over one conversation
Init == CompilerInit /\ RunIdle /\ IndexIdle /\ FnIdle
Next ==
  \/ \E text \in UserTexts : UserRecord(text) /\ UNCHANGED notCompiler
  \/ OtherRecord /\ UNCHANGED notCompiler
  \/ \E ts \in Timestamps, u \in Usages, m \in Models :
       ThinkingRecord(ts, u, m) /\ UNCHANGED notCompiler
  \/ \E ts \in Timestamps, u \in Usages, m \in Models, n \in 0..MaxTools :
       AssistantStart(ts, u, m, n) /\ UNCHANGED notCompiler
  \/ \E tool \in ToolBlocks : ToolBlock(tool) /\ UNCHANGED notCompiler
  \/ AssistantEnd /\ UNCHANGED notCompiler
  \/ EndOfConversation /\ UNCHANGED notCompiler
Spec == Init /\ [][Next]_vars

\* one call of TokenOptimizer.run
RunBegin == RunInit /\ CompilerInit /\ IndexIdle /\ FnIdle
\* the steps of run() itself, which the event loop runs when they are
\* ready: the synchronous stretches of run() and the continuations of its
\* awaits on the promises of a group
RunContinues ==
  \/ Discover /\ UNCHANGED notRun
  \/ WriteReport /\ UNCHANGED notRun
  \/ ParseGroup /\ UNCHANGED notRun
  \/ StartGroup /\ UNCHANGED notRun
  \/ AwaitGroup /\ UNCHANGED notRun
  \/ AwaitRejected /\ UNCHANGED notRun
\* the worker of a unit posts its message: processConversation is a loop
\* over the records of the conversation and returns
WorkerPosts == \E k \in 1..ANALYZE_CAP : WorkerMessage(k) /\ UNCHANGED notRun
RunStep ==
  \/ RunContinues
  \/ WorkerPosts
  \/ \E k \in 1..ANALYZE_CAP : WorkerError(k) /\ UNCHANGED notRun
  \/ \E k \in 1..ANALYZE_CAP : WorkerExit(k) /\ UNCHANGED notRun
  \/ \E answer \in Answers : QuestionAnswered(answer) /\ UNCHANGED notRun
  \/ InputEnded /\ UNCHANGED notRun
  \/ \E code \in CloseCodes : ClaudeClose(code) /\ UNCHANGED notRun
  \/ ClaudeError /\ UNCHANGED notRun
RunSpec == RunBegin /\ [][RunStep]_vars

\* run() under the scheduling of the event loop: a step of run() that is
\* ready and the message of a running worker are not put off forever.
\* Nothing makes the standard input answer or end, claude close, or a
\* worker fail: run() may wait on them for ever
RunLive ==
  RunBegin /\ [][RunStep]_vars /\ WF_vars(RunContinues) /\ WF_vars(WorkerPosts)

\* the Map of tool results of one conversation, built and then looked up
IndexBegin == IndexInit /\ CompilerInit /\ RunIdle /\ FnIdle
IndexStep ==
  \/ IndexRecord /\ UNCHANGED notIndex
  \/ IndexBuilt /\ UNCHANGED notIndex
  \/ VisitRecord /\ UNCHANGED notIndex
IndexSpec == IndexBegin /\ [][IndexStep]_vars

\* one call of a pure function on its arguments
FnBegin == FnInit /\ CompilerInit /\ RunIdle /\ IndexIdle
FnStep ==
  \/ ApplyFormatBash /\ UNCHANGED notFn
  \/ ApplyCalculateCost /\ UNCHANGED notFn
  \/ ApplyReportCost /\ UNCHANGED notFn
  \/ ApplyEntryCost /\ UNCHANGED notFn
  \/ ApplyTimeMeta /\ UNCHANGED notFn
  \/ ApplyParseJSONL /\ UNCHANGED notFn
  \/ ApplyReport /\ UNCHANGED notFn
FnSpec == FnBegin /\ [][FnStep]_vars

\* ------------------------------------------------------------------------
\* Properties of the Timeline Compiler
\* ------------------------------------------------------------------------
Numbered(e) == e.t \in {"run", "tool"}
Marker(e) == e.t \in {"think", "msgend", "user"}
NumberedLines == SelectSeq(actions, Numbered)
FileKinds == {"Read", "Write", "Edit"}

RECURSIVE RangeCount(_)
RangeCount(files) ==
  IF files = <<>> THEN 0 ELSE Len(Head(files).ranges) + RangeCount(Tail(files))

\* file operations that are not skipped: Write, Edit, and Read of a result
\* of at least 3000 bytes
IsFileOp(tool) == tool.name.prefix = "" /\ tool.name.base \in FileKinds
AboveThreshold(tool) ==
  tool.name.base = "Read" => (tool.result.found /\ tool.result.content.bytes >= 3000)
RunOps == {tool \in ToolBlocks : IsFileOp(tool) /\ AboveThreshold(tool)}
SmallReads == {tool \in ToolBlocks : IsFileOp(tool) /\ ~AboveThreshold(tool)}

\* C1: the numbered action lines of the timeline carry 1, 2, ..., k in
\* output order, and the next sequence number is k + 1 whatever markers
\* (MessageEnd, reasoning, user message) were emitted in between: only
\* action lines consume a number.
C1_SequenceNumbers ==
  /\ \A i \in 1..Len(NumberedLines) : NumberedLines[i].num = i
  /\ lineNum = Len(NumberedLines) + 1
  /\ \A i \in 1..Len(actions) : Numbered(actions[i]) \/ Marker(actions[i])

\* a returned timeline with a marker between its numbered lines 1 and 2
C1_Witness ==
  /\ pc = "done" /\ result = "object"
  /\ \E i, j, k \in 1..Len(actions) :
       /\ i < j /\ j < k
       /\ Numbered(actions[i]) /\ actions[i].num = 1
       /\ Marker(actions[j])
       /\ Numbered(actions[k]) /\ actions[k].num = 2

\* C2: a file operation of the kind of the pending run is merged into it:
\* nothing is emitted, the run keeps its kind and gains exactly one
\* filename[range] item; and when a file-operation run leaves the buffer
\* it is rendered as exactly one numbered line of that kind holding one
\* item per operation of the run.
C2_RunCompression ==
  [][ /\ \A tool \in RunOps :
           (ToolBlock(tool) /\ pendingAction.type = tool.name.base)
             => /\ actions' = actions
                /\ lineNum' = lineNum
                /\ pendingAction'.type = pendingAction.type
                /\ RangeCount(pendingAction'.files)
                     = RangeCount(pendingAction.files) + 1
      /\ (pendingAction.type \in FileKinds /\ pendingAction'.type \in FileKinds
          /\ pendingAction' # pendingAction
          /\ pendingAction'.type = pendingAction.type
          /\ RangeCount(pendingAction'.files) > 1)
           => actions' = actions
      /\ (pendingAction.type \in FileKinds /\ actions' # actions
          /\ pendingAction' # pendingAction)
           => /\ Len(actions') > Len(actions)
              /\ LET e == actions'[Len(actions) + 1]
                 IN  /\ e.t = "run"
                     /\ e.tool = pendingAction.type
                     /\ e.num = lineNum
                     /\ Len(e.items) = RangeCount(pendingAction.files)
    ]_vars

\* three consecutive reads of a.js, each of 3000 bytes, were rendered as
\* one numbered line listing three ranges of a.js
C2_Witness ==
  /\ pc = "done"
  /\ Len(NumberedLines) = 1
  /\ \E i \in 1..Len(actions) :
       /\ actions[i].t = "run" /\ actions[i].tool = "Read"
       /\ actions[i].bytes = 9000
       /\ Len(actions[i].items) = 3
       /\ \A k \in 1..3 : actions[i].items[k].file = "a.js"

\* C3: a Read whose result content is smaller than 3000 bytes (or that has
\* no result) leaves the pending action, the emitted entries, the next
\* sequence number and the previous-emission timestamp unchanged.
C3_SmallReadInvisible ==
  [][ \A tool \in SmallReads :
        ToolBlock(tool)
          => UNCHANGED <<pendingAction, actions, lineNum, prevTimestamp>>
    ]_vars

\* a 2999-byte Read was just processed while a Read run is pending
C3_Witness ==
  /\ pc = "tools"
  /\ block \in SmallReads
  /\ block.result.found /\ block.result.content.bytes = 2999
  /\ pendingAction.type = "Read"
  /\ entry.left < entry.nTools

\* C4: a blocklisted tool kind emits nothing and leaves the pending action
\* alone; a tool kind with the mcp__ prefix is never skipped and yields
\* exactly one numbered action line.
BlocklistNames == {"Glob", "Grep", "TodoWrite", "ExitPlanMode", "Skill",
                   "SlashCommand", "BashOutput", "KillShell", "NotebookEdit"}
LinesOf(acts, name) ==
  Len(SelectSeq(acts, LAMBDA e : e.t = "tool" /\ e.name = name))
C4_BlocklistAndMcp ==
  [][ \A tool \in ToolBlocks :
        ToolBlock(tool)
          => /\ (tool.name.prefix = "" /\ tool.name.base \in BlocklistNames)
                  => UNCHANGED <<actions, pendingAction, lineNum, prevTimestamp>>
             /\ tool.name.prefix = "mcp__"
                  => /\ LinesOf(actions', tool.name) = LinesOf(actions, tool.name) + 1
                     /\ actions'[Len(actions')].t = "tool"
                     /\ actions'[Len(actions')].name = tool.name
                     /\ lineNum' = actions'[Len(actions')].num + 1
    ]_vars

\* mcp__Glob was rendered as a numbered line, and a later Glob was skipped
\* without flushing the pending Read run
C4_Witness ==
  /\ pc = "tools"
  /\ block.name = Tool("Glob")
  /\ pendingAction.type = "Read"
  /\ \E i \in 1..Len(actions) :
       actions[i].t = "tool" /\ actions[i].name = Mcp("Glob")

\* C5: a reasoning-only record more than 60 seconds after the end
\* timestamp of the previously emitted entry is dropped (pending action,
\* emitted entries and previous-emission timestamp unchanged); a record
\* with usage at a gap of at most 60 seconds, or with no previous
\* emission, is counted in the pending reasoning run.
C5_IdleReasoningDropped ==
  [][ \A ts \in Timestamps, u \in Usages, m \in Models :
        ThinkingRecord(ts, u, m)
          => /\ (prevTimestamp.v = "ms" /\ ts.v = "ms"
                 /\ ts.ms - prevTimestamp.ms > 60000)
                  => UNCHANGED <<pendingAction, actions, prevTimestamp, lineNum>>
             /\ (u.present /\ u.input_tokens > 0 /\ u.output_tokens > 0
                 /\ (prevTimestamp.v = "undef"
                     \/ (prevTimestamp.v = "ms" /\ ts.v = "ms"
                         /\ ts.ms - prevTimestamp.ms <= 60000)))
                  => /\ pendingAction'.type = "Think"
                     /\ pendingAction'.endTime = ts
                     /\ pendingAction'.count =
                          IF pendingAction.type = "Think"
                            THEN pendingAction.count + 1 ELSE 1
    ]_vars

\* a reasoning record with usage, 60001 ms after the previous emission,
\* was just processed and left no pending run
C5_Witness ==
  /\ pc = "loop"
  /\ entry.type = "thinking"
  /\ entry.usage.present /\ entry.usage.input_tokens > 0
  /\ prevTimestamp = Ms(60000)
  /\ entry.timestamp = Ms(120001)
  /\ pendingAction = NoPending
  /\ Len(actions) > 0

\* C6 (as stated): a pass that emits no numbered action line returns null.
C6_NoActionLineReturnsNull ==
  (pc = "done" /\ Len(NumberedLines) = 0) => result = "null"

\* C6 (amended): a pass returns null exactly when it emitted no timeline
\* entry at all; a pass that emitted only markers or user-message lines
\* returns a result object carrying them.
C6_NullIffNoEntry ==
  pc = "done" => (result = "null" <=> actions = <<>>)

\* a conversation with records and tool_use blocks, none of which emitted
\* anything, returned null
C6_Witness ==
  /\ pc = "done" /\ result = "null"
  /\ nrec > 1 /\ nblk > 0 /\ messageNum > 0

\* the entry that the flush of pending action p pushes, as far as the
\* classification and the number of accumulated items are concerned
EntryCount(e) == IF e.countStr = <<>> THEN 1 ELSE e.countStr[1]
IsEntryOf(e, p) ==
  IF p.type = "Think" THEN e.t = "think" /\ EntryCount(e) = p.count
  ELSE e.t = "run" /\ e.tool = p.type /\ Len(e.items) = RangeCount(p.files)
FlushedOld ==
  /\ Len(actions') = Len(actions) + 1
  /\ SubSeq(actions', 1, Len(actions)) = actions
  /\ IsEntryOf(actions'[Len(actions')], pendingAction)
Fresh(p) ==
  IF p.type = "Think" THEN p.count = 1 ELSE RangeCount(p.files) = 1
CountedThink(prev, ts, u) ==
  /\ u.present /\ u.input_tokens > 0 /\ u.output_tokens > 0
  /\ ~(prev.v = "ms" /\ ts.v = "ms" /\ ts.ms - prev.ms > 60000)

\* C7: the classification of a pending action never changes in place: a
\* step that leaves a pending action of another classification has pushed
\* the entry of the old one and created a fresh one, and a Read, Write or
\* Edit operation or a counted reasoning record that differs from the
\* pending classification always does so (never a merge).
C7_ClassificationStable ==
  [][ /\ (pendingAction # NoPending /\ pendingAction' # NoPending
          /\ pendingAction'.type # pendingAction.type)
           => FlushedOld /\ Fresh(pendingAction')
      /\ \A tool \in RunOps :
           (ToolBlock(tool) /\ pendingAction # NoPending
            /\ pendingAction.type # tool.name.base)
             => /\ FlushedOld
                /\ pendingAction'.type = tool.name.base
                /\ Fresh(pendingAction')
      /\ \A ts \in Timestamps, u \in Usages, m \in Models :
           (ThinkingRecord(ts, u, m) /\ CountedThink(prevTimestamp, ts, u)
            /\ pendingAction.type \in FileKinds)
             => /\ FlushedOld
                /\ pendingAction'.type = "Think"
                /\ Fresh(pendingAction')
    ]_vars

\* an Edit arrived while a Read run was pending: the Read run is the last
\* emitted line and a fresh Edit run is pending
C7_Witness ==
  /\ pc = "tools"
  /\ block.name = Tool("Edit")
  /\ pendingAction.type = "Edit"
  /\ RangeCount(pendingAction.files) = 1
  /\ Len(actions) > 0
  /\ actions[Len(actions)].t = "run"
  /\ actions[Len(actions)].tool = "Read"

\* file operations and reasoning records held by the timeline and buffer
RECURSIVE EmittedOps(_)
EmittedOps(acts) ==
  IF acts = <<>> THEN 0
  ELSE (IF Head(acts).t = "run" THEN Len(Head(acts).items) ELSE 0)
       + EmittedOps(Tail(acts))
RECURSIVE EmittedThinks(_)
EmittedThinks(acts) ==
  IF acts = <<>> THEN 0
  ELSE (IF Head(acts).t = "think" THEN EntryCount(Head(acts)) ELSE 0)
       + EmittedThinks(Tail(acts))
HeldOps(acts, p) ==
  EmittedOps(acts) + (IF p.type \in FileKinds THEN RangeCount(p.files) ELSE 0)
HeldThinks(acts, p) ==
  EmittedThinks(acts) + (IF p.type = "Think" THEN p.count ELSE 0)

\* C8: when the pass returns the pending action is empty; every file
\* operation and every reasoning record accumulated into a run is held
\* exactly once by the buffer or by one emitted entry, in every step, so
\* that at the end all of them are in the returned timeline.
C8_BufferDrained ==
  /\ [](pc = "done" => pendingAction = NoPending)
  /\ [][ /\ \A tool \in ToolBlocks :
              ToolBlock(tool)
                => HeldOps(actions', pendingAction')
                     = HeldOps(actions, pendingAction)
                       + (IF tool \in RunOps THEN 1 ELSE 0)
         /\ \A ts \in Timestamps, u \in Usages, m \in Models :
              ThinkingRecord(ts, u, m)
                => HeldThinks(actions', pendingAction')
                     = HeldThinks(actions, pendingAction)
                       + (IF CountedThink(prevTimestamp, ts, u) THEN 1 ELSE 0)
         /\ (pc # "tools" \/ entry.left = 0)
              => HeldOps(actions', pendingAction')
                   = HeldOps(actions, pendingAction)
         /\ (nrec' = nrec \/ entry'.type # "thinking")
              => HeldThinks(actions', pendingAction')
                   = HeldThinks(actions, pendingAction)
       ]_vars

\* a returned timeline holding a run of two operations and a reasoning
\* marker that was still pending when the last record had been read
C8_Witness ==
  /\ pc = "done" /\ result = "object"
  /\ entry.type = "thinking"
  /\ Len(actions) = 2
  /\ actions[1].t = "run" /\ Len(actions[1].items) = 2
  /\ actions[2].t = "think"

\* the entries a step appends to the timeline
Appended == {i \in 1..Len(actions') : i > Len(actions)}
InlinesUsage(e) == e.t = "tool" /\ e.inline # <<>>
IsMessageEnd(e) == e.t = "msgend"

\* C15: an action line carries the inlined usage only if it is emitted
\* for a record with usage and exactly one tool_use block; a MessageEnd
\* marker is emitted only for a record with usage and more than one
\* tool_use block, by the step that ends the record, once, numbered after
\* every earlier marker; the number of tool_use blocks and the usage of a
\* record do not change while it is processed, so no record has both.
C15_InlineOrMessageEnd ==
  [][ /\ \A i \in Appended :
           /\ InlinesUsage(actions'[i]) =>
                /\ pc = "tools"
                /\ entry.nTools = 1
                /\ HasUsage(entry.usage)
           /\ IsMessageEnd(actions'[i]) =>
                /\ pc = "tools" /\ pc' = "loop"
                /\ entry.nTools > 1
                /\ HasUsage(entry.usage)
                /\ i = Len(actions')
                /\ \A j \in 1..Len(actions) :
                     IsMessageEnd(actions[j]) => actions[j].msg < actions'[i].msg
      /\ pc = "tools" /\ pc' = "tools" =>
           /\ entry'.nTools = entry.nTools
           /\ entry'.usage = entry.usage
      /\ \A j \in 1..Len(actions) : actions'[j] = actions[j] ]_vars

\* a record with one tool_use block had its usage inlined and a later
\* record with two got a MessageEnd marker
C15_Witness ==
  \E i, j \in 1..Len(actions) :
    i < j /\ InlinesUsage(actions[i]) /\ IsMessageEnd(actions[j])

\* C16 (as stated): a MessageEnd marker is emitted only if its record
\* produced at least one emitted action, whose line then precedes the
\* marker: every marker has a numbered action line before it.
C16_MessageEndAfterAction ==
  \A i \in 1..Len(actions) :
    IsMessageEnd(actions[i]) => \E j \in 1..(i - 1) : Numbered(actions[j])

\* ------------------------------------------------------------------------
\* Properties of the Batch Orchestrator
\* ------------------------------------------------------------------------
FileIndices == [k \in 1..Len(filesToProcess) |-> k]
HasRecords(f) == filesToProcess[f].entries > 0
YieldsTimeline(f) == HasRecords(f) /\ filesToProcess[f].outcome = "object"
OutOfOrder(us) ==
  \E k, l \in 1..Len(us) : k < l /\ us[k].at > us[l].at /\ us[l].at > 0

\* C9 (as stated): when run() has processed its N files, allSequences holds
\* exactly N entries, one per input file.
C9_OneEntryPerFile ==
  rpc = "finish" => Len(allSequences) = Len(filesToProcess)

\* C9: when run() has processed its N files, allSequences holds exactly
\* one entry for each input file that has at least one record and compiles
\* to a timeline, in input order and nothing else, whatever order the
\* workers complete in; it holds N entries only when every file does.
C9_OneEntryPerTimeline ==
  rpc = "finish" => allSequences = SelectSeq(FileIndices, YieldsTimeline)

\* three files analysed in one group whose workers completed out of input
\* order, one of them compiling to no timeline
C9_Witness ==
  /\ rpc = "finish"
  /\ Len(filesToProcess) = 3
  /\ Len(allSequences) = 2
  /\ Len(units) = 3
  /\ OutOfOrder(units)

\* C10: the workers of an inner group are started only when every worker
\* started before has delivered its result; the files of a parse group are
\* read only when every file with records read before has been analysed;
\* and as long as one started unit has not delivered, no worker is started
\* and no file is read.
C10_GroupBarrier ==
  [][ /\ started' # started => started \subseteq delivered
      /\ parsed' # parsed =>
           \A f \in parsed : HasRecords(f) => f \in delivered
      /\ (started \ delivered) # {} =>
           (started' = started /\ parsed' = parsed) ]_vars

\* the second parse group is being analysed: the files of the first have
\* all delivered, a worker of the second is started and has not delivered
C10_Witness ==
  /\ rpc = "await"
  /\ \E f \in started \ delivered : f > PARSE_BATCH
  /\ \A f \in 1..PARSE_BATCH : f \in parsed /\ (HasRecords(f) => f \in delivered)
  /\ ANALYZE_BATCH < PARSE_BATCH - 1

\* the workers that have been started and have neither posted a message,
\* raised an error nor exited
Running == {k \in 1..Len(units) : units[k].thread = "running"}

\* C11 (as stated): at every moment the number of workers started and not
\* yet completed is at most the pool size, the concurrency override when
\* one is configured and min(16, max(2, cores - 1)) otherwise.
C11_PoolBound ==
  Running = {} \/ Cardinality(Running) <= ANALYZE_BATCH

\* the failure of a unit of the current group: its worker posted a failure
\* message or raised an error ("error"), or exited with a non-zero code
\* before delivering ("exit")
Failure(us) == \E k \in 1..Len(us) : us[k].value \in {"error", "exit"}
GroupFiles == {units[k].file : k \in 1..Len(units)}
InSeq(q, x) == \E n \in 1..Len(q) : q[n] = x

\* C12: once a unit of a group has failed, no result of that group is ever
\* collected, no worker is started and no file is read any more, and run()
\* goes from awaiting the group to its end only: rejected in cli format
\* (returning null in hook format).
C12_FailureAborts ==
  /\ [](Failure(units) =>
          /\ \A f \in GroupFiles :
               ~InSeq(batchSequences, f) /\ ~InSeq(allSequences, f)
          /\ rpc \in {"await", "rejected", "returned"}
          /\ rpc = "rejected" => format = "cli"
          /\ rpc = "returned" => format = "hook")
  /\ [][Failure(units) =>
          /\ batchSequences' = batchSequences
          /\ allSequences' = allSequences
          /\ started' = started
          /\ parsed' = parsed]_vars

\* run() has rejected in cli format after a failure in a group of which
\* another worker had delivered a timeline: that result is not collected
C12_Witness ==
  /\ rpc = "rejected"
  /\ format = "cli"
  /\ Failure(units)
  /\ \E k \in 1..Len(units) :
       /\ units[k].promise = "resolved"
       /\ units[k].value = "object"
       /\ ~InSeq(allSequences, units[k].file)

\* the results collected so far, and the files whose results are held by
\* the group run() is awaiting or has abandoned
Collected ==
  allSequences \o (IF rpc \in {"dispatch", "await"} \/ Failure(units)
                     THEN batchSequences ELSE <<>>)
Uncollected ==
  IF rpc = "await" \/ Failure(units) THEN GroupFiles ELSE {}

\* C13: at every moment the sequence of collected results is the input
\* files whose group has been awaited and that compile to a timeline, in
\* input order: a function of the file order and of the result of each
\* conversation, the same for every order of worker completions.
C13_OrderIndependent ==
  Collected =
    SelectSeq(FileIndices,
              LAMBDA f : /\ YieldsTimeline(f)
                         /\ f \in delivered
                         /\ f \notin Uncollected)

\* a group of which the later conversation completed first has been
\* collected, with two results
C13_Witness ==
  /\ rpc = "dispatch"
  /\ OutOfOrder(units)
  /\ Len(batchSequences) >= 2

\* ------------------------------------------------------------------------
\* Properties of the Correlation Index
\* ------------------------------------------------------------------------
\* the tool_result blocks of the user records of a conversation, in order
RECURSIVE ResultBlocksOf(_)
ResultBlocksOf(recs) ==
  IF recs = <<>> THEN <<>>
  ELSE (IF Head(recs).type = "user"
          THEN SelectSeq(Head(recs).content, LAMBDA b : b.type = "tool_result")
          ELSE <<>>)
       \o ResultBlocksOf(Tail(recs))

\* the last block of an identifier, searched from the end
RECURSIVE LastResult(_, _)
LastResult(blocks, id) ==
  IF blocks = <<>> THEN [found |-> FALSE, payload |-> 0]
  ELSE IF blocks[Len(blocks)].id = id
    THEN [found |-> TRUE, payload |-> blocks[Len(blocks)].payload]
  ELSE LastResult(SubSeq(blocks, 1, Len(blocks) - 1), id)

RECURSIVE CountUses(_)
CountUses(recs) ==
  IF recs = <<>> THEN 0
  ELSE (IF Head(recs).type = "assistant"
          THEN Len(SelectSeq(Head(recs).content, LAMBDA b : b.type = "tool_use"))
          ELSE 0)
       + CountUses(Tail(recs))

\* C17: every lookup returns the last tool_result block of the invocation's
\* identifier among the user records of the whole conversation, before or
\* after the invocation, and no result when there is none; the pass goes
\* on to its end, with one lookup per tool_use block.
C17_LastResultOfConversation ==
  /\ \A n \in 1..Len(lookups) :
       lookups[n].result =
         LastResult(ResultBlocksOf(convEntries), lookups[n].id)
  /\ ipc = "done" => Len(lookups) = CountUses(convEntries)

\* an invocation between two results of its identifier got the later one
C17_Witness ==
  \E n \in 1..Len(lookups) :
    LET l == lookups[n]
    IN  /\ l.result.found
        /\ \E p \in 1..(l.at - 1) :
             /\ convEntries[p].type = "user"
             /\ convEntries[p].content[1].id = l.id
             /\ convEntries[p].content[1].payload # l.result.payload
        /\ \E q \in (l.at + 1)..Len(convEntries) :
             /\ convEntries[q].type = "user"
             /\ convEntries[q].content[1].id = l.id
             /\ convEntries[q].content[1].payload = l.result.payload

\* ------------------------------------------------------------------------
\* Properties of formatBashTool and of the Cost Estimator
\* ------------------------------------------------------------------------
\* a heredoc delimiter at index i: <<WORD, << 'WORD', << "WORD", <<-WORD
DelimiterAt(cmd, i) ==
  /\ i + 1 <= Len(cmd)
  /\ cmd[i] = "<" /\ cmd[i + 1] = "<"
  /\ LET d == IF i + 2 <= Len(cmd) /\ cmd[i + 2] = "-" THEN i + 3 ELSE i + 2
         j == SkipSpaces(cmd, d)
         k == IF j <= Len(cmd) /\ IsQuote(cmd[j]) THEN j + 1 ELSE j
     IN  k <= Len(cmd) /\ IsWordChar(cmd[k])
ContainsHeredoc(cmd) == \E i \in 1..Len(cmd) : DelimiterAt(cmd, i)

\* C18 (as stated): the line of a Bash invocation whose command contains a
\* heredoc delimiter (<<WORD, << 'WORD', << "WORD" or <<-WORD) carries the
\* reference to the invocation's identifier and not the command text; the
\* line of any other command carries the raw command text.
C18_HeredocNeverEchoed ==
  (fnIn.fn = "formatBashTool" /\ fnOut # NotCalled) =>
    fnOut.v.body =
      IF ContainsHeredoc(fnIn.tool.command)
        THEN [k |-> "heredoc", id |-> fnIn.tool.id]
        ELSE [k |-> "cmd", text |-> fnIn.tool.command]

\* case-insensitive occurrence of a lower-case word in an identifier
SameLetter(a, b) ==
  a = b \/ <<a, b>> \in {<<"O", "o">>, <<"P", "p">>, <<"U", "u">>,
                         <<"S", "s">>, <<"H", "h">>}
Mentions(model, word) ==
  \E i \in 0..(Len(model) - Len(word)) :
    \A j \in 1..Len(word) : SameLetter(model[i + j], word[j])

\* rates in dollars per million tokens, and dollars in units of 10^-8
PremiumRates == [input |-> 15, output |-> 75]
DefaultRates == [input |-> 3, output |-> 15]
Dollars(n) == n * 100000000
\* tokens / 1,000,000 x rate, in units of 10^-8 dollars
AtRate(tokens, rate) == tokens * rate * 100

\* the tier of an identifier: the sonnet-4 and sonnet-3 families are
\* matched first, to the default rates; then opus, then haiku (0.25 and
\* 1.25 dollars: 25 and 125 cents); every other identifier is default
ExpectedCost(i, o, model) ==
  LET sonnet == \/ Mentions(model, <<"s", "o", "n", "n", "e", "t", "-", "4">>)
                \/ Mentions(model, <<"s", "o", "n", "n", "e", "t", "-", "3">>)
  IN  IF ~sonnet /\ Mentions(model, <<"o", "p", "u", "s">>)
        THEN AtRate(i, PremiumRates.input) + AtRate(o, PremiumRates.output)
      ELSE IF ~sonnet /\ Mentions(model, <<"h", "a", "i", "k", "u">>)
        THEN i * 25 + o * 125
      ELSE AtRate(i, DefaultRates.input) + AtRate(o, DefaultRates.output)

\* C19: calculateCost is input / 1,000,000 times the input rate plus
\* output / 1,000,000 times the output rate of the tier matched in the
\* identifier whatever its case (15/75 for opus, 0.25/1.25 for haiku, 3/15
\* otherwise); an opus model with 1,000,000 input tokens and no output
\* tokens costs 15 dollars.
C19_TieredCost ==
  (fnIn.fn = "calculateCost" /\ fnOut # NotCalled) =>
    /\ fnOut.v = ExpectedCost(fnIn.inputTokens, fnIn.outputTokens, fnIn.model)
    /\ (/\ Mentions(fnIn.model, <<"o", "p", "u", "s">>)
        /\ Len(fnIn.model) = 4
        /\ fnIn.inputTokens = 1000000
        /\ fnIn.outputTokens = 0) => fnOut.v = Dollars(15)

\* the cost of 1,000,000 input tokens of the model "OPUS" was computed
C19_Witness ==
  /\ fnIn.fn = "calculateCost"
  /\ fnIn.model = <<"O", "P", "U", "S">>
  /\ fnIn.inputTokens = 1000000
  /\ fnIn.outputTokens = 0
  /\ fnOut = [k |-> "cost", v |-> Dollars(15)]

\* a missing or empty, 'unknown' or unmatched identifier
Unmatched(model) ==
  \/ model = <<>>
  \/ model = <<"u", "n", "k", "n", "o", "w", "n">>
  \/ /\ ~Mentions(model, <<"o", "p", "u", "s">>)
     /\ ~Mentions(model, <<"h", "a", "i", "k", "u">>)

\* C20: for a missing, empty, 'unknown' or unmatched identifier the call
\* returns a cost, the cost at the default rates of 3 and 15 dollars, and
\* never the cost at the premium rates.
C20_DefaultTierFallback ==
  (fnIn.fn = "calculateCost" /\ fnOut # NotCalled /\ Unmatched(fnIn.model)) =>
    /\ fnOut.k = "cost"
    /\ fnOut.v = AtRate(fnIn.inputTokens, DefaultRates.input)
                   + AtRate(fnIn.outputTokens, DefaultRates.output)
    /\ fnIn.inputTokens + fnIn.outputTokens > 0 =>
         fnOut.v # AtRate(fnIn.inputTokens, PremiumRates.input)
                     + AtRate(fnIn.outputTokens, PremiumRates.output)

\* the cost of a call without model identifier and of a call with an
\* identifier no tier matches
C20_Witness ==
  /\ fnIn.fn = "calculateCost"
  /\ fnIn.model \in {<<>>, <<"g", "p", "t">>}
  /\ fnIn.inputTokens = 1000000
  /\ fnIn.outputTokens = 80000
  /\ fnOut.k = "cost"

\* the elapsed time between two parseable timestamps is in the range shown
Parseable(ts) == ts.v = "ms"
InRange(prev, ts) ==
  ts.ms - prev.ms >= 1000 /\ ts.ms - prev.ms <= 3600000

\* C21 (as stated): the duration metadata of a pair of timestamps is
\* computed without error, and it is absent whenever a timestamp of the
\* pair is missing or unparseable or the elapsed time is negative, under
\* one second or over one hour.
C21_NoDurationUnlessReliable ==
  (fnIn.fn = "timeMeta" /\ fnOut # NotCalled) =>
    /\ fnOut.k = "meta"
    /\ ~(Parseable(fnIn.prev) /\ Parseable(fnIn.timestamp)
         /\ InRange(fnIn.prev, fnIn.timestamp))
         => fnOut.v = NoDuration

\* the lines of a content, by the positions of its line feeds: line n lies
\* between the (n-1)-th and the n-th line feed
Feeds(content) == {i \in 1..Len(content) : content[i] = "\n"}
LineCount(content) == Cardinality(Feeds(content)) + 1
LineStart(content, n) ==
  IF n = 1 THEN 1
  ELSE 1 + (CHOOSE i \in Feeds(content) :
              Cardinality({j \in Feeds(content) : j < i}) = n - 2)
LineEnd(content, n) ==
  IF n = LineCount(content) THEN Len(content)
  ELSE (CHOOSE i \in Feeds(content) :
          Cardinality({j \in Feeds(content) : j < i}) = n - 1) - 1
LineOf(content, n) == SubSeq(content, LineStart(content, n), LineEnd(content, n))
Significant(line) == SelectSeq(line, LAMBDA c : c # " ")

\* a line that holds one record: a number, whose digits follow each
\* other, or the object {}, with any whitespace around its tokens; a line
\* holding the literal null parses to no record
Digits1(line) == {i \in 1..Len(line) : line[i] = "1"}
IsNumberLine(line) ==
  /\ Digits1(line) # {}
  /\ \A i \in 1..Len(line) : line[i] \in {"1", " "}
  /\ \A i, j \in Digits1(line) : \A k \in i..j : line[k] = "1"
IsRecordLine(line) == IsNumberLine(line) \/ Significant(line) = <<"{", "}">>
RecordOf(line) ==
  IF IsNumberLine(line) THEN JsonNumber(Ones(Cardinality(Digits1(line))))
  ELSE JsonObject
RecordLines(content) ==
  SelectSeq([n \in 1..LineCount(content) |-> LineOf(content, n)], IsRecordLine)

\* C22: parseJSONL returns the records of the lines that hold a JSON
\* value, in file order, one per line: blank lines and malformed lines
\* give no record and remove no record of another line, and the call
\* returns for every content.
C22_MalformedLineSkipped ==
  (fnIn.fn = "parseJSONL" /\ fnOut # NotCalled /\ fnIn.file.readable) =>
    /\ fnOut.k = "entries"
    /\ Len(fnOut.v) = Len(RecordLines(fnIn.file.content))
    /\ \A n \in 1..Len(fnOut.v) :
         fnOut.v[n] = RecordOf(RecordLines(fnIn.file.content)[n])

\* a file with a malformed line between two records returned both records
C22_Witness ==
  /\ fnIn.fn = "parseJSONL"
  /\ fnIn.file = ReadableFile(<<"1", "\n", "{", "\n", "{", "}">>)
  /\ fnOut = [k |-> "entries", v |-> <<JsonNumber(1), JsonObject>>]

\* ------------------------------------------------------------------------
\* Properties of the Batch Orchestrator: failures
\* ------------------------------------------------------------------------
\* the files parseJSONL returns no record for: unreadable ones (and those
\* without any record line)
NoRecords == {f \in 1..Len(filesToProcess) : ~HasRecords(f)}
Ended == rpc \in {"rejected", "returned"}
\* run() has left the loops without an error: it is at the report, waits
\* for the analysis or has returned normally
Reported ==
  rpc \in {"finish", "question", "claude", "unanswered", "resolved"}

\* C23: a file that cannot be read yields no conversation: no worker is
\* started for it and it is in no collected sequence; reading it never
\* ends run(), which goes on with the files read with it and after it;
\* the loop is left with an error only when no file at all has a record;
\* and when run() reaches the report every file with records is in it.
C23_UnreadableFileNotFatal ==
  /\ [](\A f \in NoRecords :
          /\ f \notin started
          /\ ~InSeq(validConversations, f)
          /\ ~InSeq(allConversations, f)
          /\ ~InSeq(allSequences, f))
  /\ [](Reported =>
          /\ allConversations = SelectSeq(FileIndices, HasRecords)
          /\ allSequences = SelectSeq(FileIndices, YieldsTimeline))
  /\ [][ /\ parsed' # parsed =>
              /\ ~Ended'
              /\ \A f \in parsed' \ parsed :
                   HasRecords(f) => InSeq(validConversations', f)
         /\ (rpc = "parse" /\ Ended') =>
              NoRecords = 1..Len(filesToProcess) ]_vars

\* run() has reached the report with the timeline of a file that was read
\* after an unreadable one and before another
C23_Witness ==
  /\ rpc = "resolved"
  /\ Len(filesToProcess) = 3
  /\ NoRecords = {1, 3}
  /\ allSequences = <<2>>

\* C26: in hook format run() never rejects; an error thrown in any stage
\* of run() (detection and discovery, the loop over the files, the
\* awaited workers, the report, the analysis) ends it by returning null in
\* hook format and by rejecting in cli format.
C26_HookNeverRejects ==
  /\ [](format = "hook" => rpc # "rejected")
  /\ [](format = "cli" => rpc # "returned")
  /\ [][ /\ (rpc = "discover" /\ rpc' # "parse") => rpc' = Thrown
         /\ (rpc = "parse" /\ rpc' \notin {"parse", "dispatch", "finish"})
              => rpc' = Thrown
         /\ (rpc = "await" /\ SomeRejected(units)) => rpc' \in {"await", Thrown}
         /\ (rpc = "finish" /\ rpc' \notin {"question", "resolved"})
              => rpc' = Thrown
         /\ (rpc = "question"
               /\ rpc' \notin {"question", "claude", "unanswered", "resolved"})
              => rpc' = Thrown
         /\ (rpc = "claude" /\ rpc' \notin {"claude", "resolved"})
              => rpc' = Thrown
         /\ Ended => rpc' = rpc ]_vars

\* in hook format run() has returned null after the failure of a worker
C26_Witness ==
  /\ format = "hook"
  /\ rpc = "returned"
  /\ Failure(units)

\* ------------------------------------------------------------------------
\* Properties of the report
\* ------------------------------------------------------------------------
\* the earliest of the timestamps a conversation has, 0 when it has none
RECURSIVE Earliest(_)
Earliest(stamps) ==
  IF stamps = <<>> THEN 0
  ELSE LET rest == Tail(stamps)
           restHas == \E i \in 1..Len(rest) : Truthy(rest[i])
       IN  IF ~Truthy(Head(stamps)) THEN Earliest(rest)
           ELSE IF restHas /\ Earliest(rest) < Head(stamps).ms
             THEN Earliest(rest)
           ELSE Head(stamps).ms
\* the collected conversation of a file
Collection(file) ==
  CHOOSE c \in {fnIn.sequences[n] : n \in 1..Len(fnIn.sequences)} :
    c.file = file
EarliestOf(file) == Earliest(Collection(file).stamps)
ReportedFiles(out) == {out[n] : n \in 1..Len(out)}
DistinctStarts ==
  \A i, j \in 1..Len(fnIn.sequences) :
    i # j => Earliest(fnIn.sequences[i].stamps)
               # Earliest(fnIn.sequences[j].stamps)

\* C25: the Sessions section lists every collected conversation once, in
\* descending order of its earliest record timestamp; when the earliest
\* timestamps are distinct the place of a conversation is the number of
\* conversations that start later, whatever the order of collection.
C25_SessionsNewestFirst ==
  (fnIn.fn = "generateAnalysisReport" /\ fnOut # NotCalled) =>
    /\ Len(fnOut.v) = Len(fnIn.sequences)
    /\ ReportedFiles(fnOut.v) =
         {fnIn.sequences[n].file : n \in 1..Len(fnIn.sequences)}
    /\ \A i, j \in 1..Len(fnOut.v) :
         i < j => EarliestOf(fnOut.v[i]) >= EarliestOf(fnOut.v[j])
    /\ DistinctStarts =>
         \A i \in 1..Len(fnOut.v) :
           Cardinality({f \in ReportedFiles(fnOut.v) :
                          EarliestOf(f) > EarliestOf(fnOut.v[i])}) = i - 1

\* three conversations collected oldest first, one of them with a record
\* without timestamp, are listed newest first
C25_Witness ==
  /\ fnIn.fn = "generateAnalysisReport"
  /\ fnIn.sequences = <<Session("a", <<Ms(7), Ms(3)>>),
                        Session("b", <<Ms(9), NoTime, Ms(5)>>),
                        Session("c", <<NoTime, Ms(7)>>)>>
  /\ fnOut = [k |-> "sessions", v |-> <<"c", "b", "a">>]

\* ------------------------------------------------------------------------
\* Properties of the Timeline Compiler: formatters, order and totals
\* ------------------------------------------------------------------------
DedicatedNames == {"Read", "Write", "Edit", "Bash", "Task", "AskUserQuestion",
                   "WebFetch", "WebSearch"}
\* a tool kind that is neither blocklisted nor has a formatter of its own
Unrecognized(tool) ==
  /\ tool.name.prefix = ""
  /\ tool.name.base \notin BlocklistNames \cup DedicatedNames
LastLine(acts) == acts[Len(acts)]

\* C24 (as stated): an invocation of a kind that is neither blocklisted nor
\* has a dedicated formatter adds exactly one numbered action line, the
\* last of the timeline, with the 'needs formatter' marker, and does not
\* make the pass fail.
C24_UnknownToolNeedsFormatter ==
  [][ \A tool \in ToolBlocks :
        (ToolBlock(tool) /\ Unrecognized(tool))
          => /\ pc' # "threw" /\ result' # "error"
             /\ LinesOf(actions', tool.name) = LinesOf(actions, tool.name) + 1
             /\ LastLine(actions').t = "tool"
             /\ LastLine(actions').name = tool.name
             /\ LastLine(actions').fmt = "needs formatter"
             /\ LastLine(actions').num = lineNum' - 1
    ]_vars

\* C27 (as stated): the remembered user message is inserted once, as an
\* entry of its own, by the assistant record that follows it, and no
\* action line of a record that precedes the user record comes after it.
\* A file-operation run is started and extended by assistant records
\* only, each of which clears the remembered message first: a run that is
\* pending while a message is remembered holds operations of records
\* before the user record, and its line is not yet in the timeline.
C27_UserMessageInOrder ==
  [][ \A ts \in Timestamps, u \in Usages, m \in Models, n \in 0..MaxTools :
        (AssistantStart(ts, u, m, n) /\ lastUserMessage # <<>>)
          => /\ actions' = Append(actions, [t |-> "user",
                                            text |-> lastUserMessage])
             /\ lastUserMessage' = <<>>
             /\ pendingAction.type \notin FileKinds
    ]_vars

\* the 60-second rule
IdleGap(prev, ts) ==
  prev.v = "ms" /\ ts.v = "ms" /\ ts.ms - prev.ms > 60000

\* C28 (as stated): a reasoning-only record that the 60-second rule does
\* not drop is accumulated into the pending reasoning run (count, tokens
\* and end timestamp) or, after the flush of another pending action,
\* starts a reasoning run with count 1: the reasoning records held by the
\* timeline and the buffer grow by one.
C28_ReasoningCounted ==
  [][ \A ts \in Timestamps, u \in Usages, m \in Models :
        (ThinkingRecord(ts, u, m) /\ ~IdleGap(prevTimestamp, ts))
          => /\ pendingAction'.type = "Think"
             /\ pendingAction'.endTime = ts
             /\ IF pendingAction.type = "Think"
                  THEN /\ pendingAction'.count = pendingAction.count + 1
                       /\ pendingAction'.totalIn
                            = pendingAction.totalIn + u.input_tokens
                       /\ pendingAction'.totalOut
                            = pendingAction.totalOut + u.output_tokens
                       /\ actions' = actions
                  ELSE /\ pendingAction'.count = 1
                       /\ pendingAction # NoPending => FlushedOld
             /\ HeldThinks(actions', pendingAction')
                  = HeldThinks(actions, pendingAction) + 1
    ]_vars

\* a tool kind that is rendered at once: not skipped and not a run kind
Immediate(tool) ==
  /\ ~(tool.name.prefix = "" /\ tool.name.base \in BlocklistNames)
  /\ ~(tool.name.prefix = "" /\ tool.name.base \in {"Read", "Write", "Edit", "Think"})
\* the end timestamp of the entry that precedes a line rendered now: the
\* end of the run that is flushed before it, else the previous emission
PrecedingEnd ==
  IF pendingAction = NoPending THEN prevTimestamp
  ELSE IF Truthy(pendingAction.endTime) THEN pendingAction.endTime
  ELSE pendingAction.startTime

\* C29 (as stated): the duration of an immediately rendered action line is
\* the elapsed time from the end timestamp of the entry just before it in
\* the timeline, the run flushed before it included, to the timestamp of
\* its record.
C29_DurationSincePrecedingEntry ==
  [][ \A tool \in ToolBlocks :
        (ToolBlock(tool) /\ Immediate(tool))
          => /\ LastLine(actions').t = "tool"
             /\ LastLine(actions').dur = TimeMeta(PrecedingEnd, entry.timestamp)
    ]_vars

\* the byte size of a file operation, and the ranges a run holds for a file
OpBytes(tool) ==
  IF tool.name.base = "Read" THEN tool.result.content.bytes
  ELSE tool.content.bytes
RangesOf(files, name) ==
  IF \E i \in 1..Len(files) : files[i].file = name
    THEN files[CHOOSE i \in 1..Len(files) : files[i].file = name].ranges
    ELSE <<>>
RangesShown(e, name) ==
  LET own == SelectSeq(e.items, LAMBDA it : it.file = name)
  IN  [i \in 1..Len(own) |-> own[i].range]
FileNames(files) == {files[i].file : i \in 1..Len(files)}
\* the step pushes the entry of the pending action and nothing else
OnlyFlushed ==
  /\ pendingAction # NoPending
  /\ Len(actions') = Len(actions) + 1
  /\ pendingAction' # pendingAction

\* C30: a file operation adds its byte size and one range under its
\* filename to the run it joins or starts; a reasoning record adds its
\* tokens; the entry pushed for a pending file-operation run is one
\* numbered line with the byte total of the run and, for every filename,
\* all of its ranges in order; the entry pushed for a pending reasoning
\* run is one marker with the token totals of the run, the count shown
\* only when it is greater than 1; the end timestamp of a run is the
\* timestamp of its latest record, and it is the previous-emission
\* timestamp after a step that only flushes.
C30_FlushTotals ==
  [][ /\ \A tool \in RunOps :
           ToolBlock(tool)
             => /\ pendingAction'.type = tool.name.base
                /\ pendingAction'.endTime = entry.timestamp
                /\ pendingAction'.totalBytes =
                     (IF pendingAction.type = tool.name.base
                        THEN pendingAction.totalBytes ELSE 0) + OpBytes(tool)
                /\ RangeCount(pendingAction'.files) =
                     (IF pendingAction.type = tool.name.base
                        THEN RangeCount(pendingAction.files) ELSE 0) + 1
                /\ pendingAction.type = tool.name.base =>
                     \A name \in FileNames(pendingAction.files) :
                       \E k \in 0..1 :
                         SubSeq(RangesOf(pendingAction'.files, name), 1,
                                Len(RangesOf(pendingAction'.files, name)) - k)
                           = RangesOf(pendingAction.files, name)
      /\ \A ts \in Timestamps, u \in Usages, m \in Models :
           (ThinkingRecord(ts, u, m) /\ CountedThink(prevTimestamp, ts, u))
             => /\ pendingAction'.totalIn =
                     (IF pendingAction.type = "Think"
                        THEN pendingAction.totalIn ELSE 0) + u.input_tokens
                /\ pendingAction'.totalOut =
                     (IF pendingAction.type = "Think"
                        THEN pendingAction.totalOut ELSE 0) + u.output_tokens
                /\ pendingAction'.endTime = ts
      /\ (pendingAction # NoPending /\ pendingAction' # pendingAction
          /\ pendingAction'.type # pendingAction.type)
           => LET e == actions'[Len(actions) + 1]
              IN  /\ Len(actions') > Len(actions)
                  /\ pendingAction.type \in FileKinds =>
                       /\ e.t = "run" /\ e.tool = pendingAction.type
                       /\ e.num = lineNum
                       /\ e.bytes = pendingAction.totalBytes
                       /\ Len(e.items) = RangeCount(pendingAction.files)
                       /\ \A name \in FileNames(pendingAction.files) :
                            RangesShown(e, name)
                              = RangesOf(pendingAction.files, name)
                  /\ pendingAction.type = "Think" =>
                       /\ e.t = "think"
                       /\ e.totalIn = pendingAction.totalIn
                       /\ e.totalOut = pendingAction.totalOut
                       /\ e.countStr = IF pendingAction.count > 1
                                         THEN <<pendingAction.count>> ELSE <<>>
      /\ OnlyFlushed => prevTimestamp' = pendingAction.endTime
    ]_vars

\* a returned timeline whose first line is a run of two reads of 3000
\* bytes of two files and whose second entry is the marker of two
\* reasoning records
C30_Witness ==
  /\ pc = "done" /\ result = "object"
  /\ Len(actions) = 2
  /\ actions[1].t = "run" /\ actions[1].bytes = 6000
  /\ Len(actions[1].items) = 2
  /\ actions[1].items[1].file # actions[1].items[2].file
  /\ actions[2].t = "think" /\ actions[2].countStr = <<2>>
  /\ actions[2].totalIn = 2000 /\ actions[2].totalOut = 400

\* ------------------------------------------------------------------------
\* Properties of formatDuration
\* ------------------------------------------------------------------------
\* the elapsed time of the call, both timestamps being parseable
Elapsed == fnIn.timestamp.ms - fnIn.prev.ms
\* s is the whole number of seconds nearest to ms milliseconds
NearestSecond(ms, s) == 2 * ms - 1000 <= 2000 * s /\ 2000 * s <= 2 * ms + 1000
TimedCall ==
  /\ fnIn.fn = "timeMeta" /\ fnOut.k = "meta"
  /\ Parseable(fnIn.prev) /\ Parseable(fnIn.timestamp)

\* C31: for parseable timestamps the duration is omitted when the elapsed
\* time is negative, over one hour or under one second; below one minute
\* it is rendered in whole seconds; from one minute up to exactly one hour
\* it is rendered in whole minutes and the seconds of the remainder (the
\* seconds part is left out when the remainder rounds to none).
C31_DurationRendering ==
  TimedCall =>
    IF Elapsed < 0 \/ Elapsed > 3600000 \/ Elapsed < 1000
      THEN fnOut.v = NoDuration
    ELSE IF Elapsed < 60000
      THEN fnOut.v.k = "s" /\ NearestSecond(Elapsed, fnOut.v.s)
    ELSE /\ fnOut.v.k \in {"ms", "m"}
         /\ fnOut.v.m * 60000 <= Elapsed
         /\ Elapsed < (fnOut.v.m + 1) * 60000
         /\ fnOut.v.k = "ms" =>
              /\ fnOut.v.s > 0
              /\ NearestSecond(Elapsed - fnOut.v.m * 60000, fnOut.v.s)
         /\ fnOut.v.k = "m" => Elapsed - fnOut.v.m * 60000 < 500

\* an elapsed time of exactly one hour is rendered as 60 minutes
C31_Witness ==
  /\ TimedCall
  /\ Elapsed = 3600000
  /\ fnOut.v = [k |-> "m", m |-> 60]

\* C39 (as stated): in every rendered duration the seconds component lies
\* between 0 and 59: an elapsed time below one minute is never rendered as
\* 60s, nor an elapsed time above it with a seconds part of 60.
C39_SecondsBelowSixty ==
  (fnIn.fn = "timeMeta" /\ fnOut.k = "meta" /\ fnOut.v.k \in {"s", "ms"}) =>
    fnOut.v.s \in 0..59

\* ------------------------------------------------------------------------
\* Properties of the two cost estimators
\* ------------------------------------------------------------------------
\* C40 (as stated): the cost estimator of the report summary and the cost
\* estimator of the compiler return the same total cost for every input
\* token count, output token count and model identifier.
C40_EstimatorsAgree ==
  (fnIn.fn = "TokenOptimizer.calculateCost" /\ fnOut.k = "costData") =>
    fnOut.v.total = calculateCost(fnIn.inputTokens, fnIn.outputTokens,
                                  fnIn.model)

\* ------------------------------------------------------------------------
\* Properties of the worker promises
\* ------------------------------------------------------------------------
\* C33: the promise of every dispatched unit whose worker has ended, by
\* posting a message, by raising an error or by exiting with any code,
\* zero included, is settled, so that no group waits on a worker that has
\* ended.
C33_EndedWorkerSettles ==
  \A k \in 1..Len(units) :
    units[k].thread # "running" => units[k].promise # "pending"

\* while run() awaits a group, a worker of the group that ended by itself
\* with code 0 has its promise resolved, and another that exited with a
\* non-zero code before delivering has its promise rejected
C33_Witness ==
  /\ rpc = "await"
  /\ \E k \in 1..Len(units) :
       /\ units[k].exit = <<0>>
       /\ units[k].promise = "resolved"
  /\ \E k \in 1..Len(units) :
       /\ units[k].exit = <<1>>
       /\ units[k].first = "exit"
       /\ units[k].promise = "rejected"

\* no file occurs twice in the sequence q
NoDuplicate(q) == \A i, j \in 1..Len(q) : i # j => q[i] # q[j]

\* the outcome the first event of the worker of u gives the unit: none
\* before any event, the posted result after a success message, a
\* failure after a failure message, an error or a non-zero exit
FirstOutcome(u) ==
  CASE u.first = "none" -> <<"pending", "none">>
    [] u.first = "success" -> <<"resolved", filesToProcess[u.file].outcome>>
    [] u.first = "failure" -> <<"rejected", "error">>
    [] u.first = "error" -> <<"rejected", "error">>
    [] u.first = "exit" -> <<"rejected", "exit">>
\* the step leaves the units of the group in place
SameUnits ==
  /\ Len(units') = Len(units)
  /\ \A k \in 1..Len(units) : units'[k].file = units[k].file

\* C34: the outcome of a unit is the one the first event of its worker
\* gives it, whatever events follow; no step that leaves the unit in
\* place changes its promise or its value once its worker has had an
\* event (the exit that follows worker.terminate() among them, and the
\* events handled after run() has settled), so a resolved unit never
\* becomes rejected nor a rejected one resolved; and the result of a unit
\* is collected at most once.
C34_OutcomeFixedByFirstEvent ==
  /\ [](\A k \in 1..Len(units) :
          <<units[k].promise, units[k].value>> = FirstOutcome(units[k]))
  /\ [][ SameUnits =>
           \A k \in 1..Len(units) :
             units[k].first # "none" =>
               /\ units'[k].promise = units[k].promise
               /\ units'[k].value = units[k].value ]_vars
  /\ [](NoDuplicate(batchSequences) /\ NoDuplicate(allSequences))

\* the worker of a unit resolved by its success message has exited with
\* code 1 after it was terminated, and the result of the unit has been
\* collected
C34_Witness ==
  /\ rpc = "dispatch"
  /\ \E k \in 1..Len(units) :
       /\ units[k].first = "success"
       /\ units[k].promise = "resolved" /\ units[k].value = "object"
       /\ units[k].exit = <<1>>
       /\ InSeq(batchSequences, units[k].file)

\* run() has returned or thrown
Terminated == rpc \in {"resolved", "rejected", "returned"}
\* run() has left the loops and waits for the answer to its question or
\* for the claude it has spawned
AwaitsAnalysis == rpc \in {"question", "claude", "unanswered"}
\* a worker of the current group has ended without delivering a result
Undelivered ==
  \E k \in 1..Len(units) :
    units[k].thread # "running" /\ units[k].promise # "resolved"

\* C32 (as stated): for every value of the concurrency override, zero,
\* negative or larger than the number of conversations, and provided
\* every started worker delivers a result, run() starts a worker for
\* every conversation with records, never starts one for a conversation
\* it has started before, and terminates: it settles, or it comes to
\* wait for the answer to its question or for claude, which are not its
\* to end.
C32_EveryConversationOnceAndTerminates ==
  /\ [](Reported =>
          started = {f \in 1..Len(filesToProcess) : HasRecords(f)})
  /\ [][started' # started => GroupFiles' \cap started = {}]_vars
  /\ <>(Terminated \/ Undelivered \/ AwaitsAnalysis)

\* ------------------------------------------------------------------------
\* Properties of the Timeline Compiler: costs and lost invocations
\* ------------------------------------------------------------------------
\* C38 (as stated): whenever an assistant record carries a usage object,
\* the cost the compiler attributes to the record equals calculateCost of
\* its input tokens, its output tokens and its model, a token count of 0
\* included.
C38_CostOfUsage ==
  (fnIn.fn = "entryCost" /\ fnOut.k = "entryCost" /\ fnIn.usage.present) =>
    fnOut.v = calculateCostNumber(fnIn.usage.input_tokens,
                                  fnIn.usage.output_tokens, fnIn.model)

\* the end of the most recent activity of the conversation: the end of the
\* pending run when there is one, else the end of the last emitted entry
LastActivity ==
  IF pendingAction # NoPending THEN pendingAction.endTime ELSE prevTimestamp
\* the step consumes a reasoning record with usage and drops it
DropsReasoning ==
  /\ pc = "loop" /\ nrec' = nrec + 1
  /\ entry'.type = "thinking" /\ HasUsage(entry'.usage)
  /\ pendingAction' = pendingAction

\* C37 (as stated): a reasoning-only record is dropped as idle time only
\* if more than 60 seconds separate it from the most recent preceding
\* activity of the conversation, the operations and reasoning records
\* accumulated in the still-pending run included.
C37_IdleSinceLastActivity ==
  [][ DropsReasoning =>
        /\ Truthy(LastActivity)
        /\ entry'.timestamp.ms - LastActivity.ms > 60000 ]_vars

\* the cost an entry of the timeline displays for assistant records with
\* tool_use blocks, in units of 10^-4 dollars: the cost of a run line, of
\* an inline annotation, of a MessageEnd marker
ShownCost(e) ==
  IF e.t \in {"run", "msgend"} THEN e.cost
  ELSE IF e.t = "tool" /\ e.inline # <<>> THEN e.inline[3]
  ELSE 0
RECURSIVE SumShown(_)
SumShown(acts) ==
  IF acts = <<>> THEN 0 ELSE ShownCost(Head(acts)) + SumShown(Tail(acts))
\* the cost held in the pending file-operation run
HeldCost ==
  IF pendingAction # NoPending /\ pendingAction.type # "Think"
    THEN toFixed4(pendingAction.cost) ELSE 0
\* the largest cost of one record of the model
MaxEntryCost ==
  CHOOSE c \in {toFixed4(EntryCost(u, m)) : u \in Usages, m \in Models} :
    \A d \in {toFixed4(EntryCost(u, m)) : u \in Usages, m \in Models} : c >= d

\* C36 (as stated): the cost of the usage of one assistant record is
\* included in the displayed cost of at most one timeline entry, so the
\* costs displayed in run lines, inline annotations and MessageEnd markers
\* and held in the pending run never add up to more than one cost per
\* assistant record compiled.
C36_CostShownOnce ==
  SumShown(actions) + HeldCost <= messageNum * MaxEntryCost

\* the tool invocations the timeline and the buffer represent: the
\* numbered lines of immediately rendered tools, the file[range] items of
\* the run lines and the ranges of the pending run
RECURSIVE ToolLines(_)
ToolLines(acts) ==
  IF acts = <<>> THEN 0
  ELSE (IF Head(acts).t = "tool" THEN 1 ELSE 0) + ToolLines(Tail(acts))
Represented(acts, p) == ToolLines(acts) + HeldOps(acts, p)
\* a tool_use block that is neither blocklisted nor a below-threshold Read
Kept(tool) == ~SkipBlocklisted(tool.name) /\ tool \notin SmallReads

\* C35 (as stated): no tool invocation is lost: every tool_use block that
\* is neither blocklisted nor a below-threshold Read adds exactly one
\* numbered line or one file[range] item to the timeline, also when it
\* belongs to a record whose first content block is a thinking block; no
\* other block and no other step adds any.
C35_NoInvocationLost ==
  [][ /\ (pc = "tools" /\ entry'.left = entry.left - 1) =>
           Represented(actions', pendingAction')
             = Represented(actions, pendingAction)
               + (IF Kept(block') THEN 1 ELSE 0)
      /\ (nrec' = nrec + 1 /\ entry'.type = "thinking") =>
           Represented(actions', pendingAction')
             = Represented(actions, pendingAction) + entry'.nTools
      /\ (entry'.type # "thinking" /\ entry'.left = entry.left) =>
           Represented(actions', pendingAction')
             = Represented(actions, pendingAction)
    ]_vars

====
